---------------------------- MODULE Spec2Model ----------------------------
(***************************************************************************)
(* A model of enhance-data-view: the struct layout engine (defineStruct), *)
(* the array and string descriptors, the primitive descriptors and the    *)
(* read / write / reactive entry points.                                  *)
(*                                                                         *)
(* A JavaScript optional number (number | undefined) is modelled as a     *)
(* sequence: <<>> is undefined and <<n>> is the number n.                 *)
(***************************************************************************)
EXTENDS Integers, Sequences, FiniteSets, TLC

Undefined == <<>>

Some(n) == <<n>>

IsNumber(x) == x # Undefined

\* x ?? y
Coalesce(x, y) == IF x = Undefined THEN y ELSE x[1]

Max(a, b) == IF a >= b THEN a ELSE b

Min(a, b) == IF a <= b THEN a ELSE b

(***************************************************************************)
(* Primitive descriptors (definePrimitive) and the catalogue of types.ts  *)
(***************************************************************************)

\* definePrimitive(name).setSize(size): the configuration state of a primitive
Primitive(name, size) ==
    [kind |-> "primitive", name |-> name, size |-> size, align |-> Undefined]

PrimitiveSize(T) == Max(Coalesce(T.size, 0), 0)

\* a plausible slip: the alignment of a primitive does not follow its size
PrimitiveAlign_One(T) == Max(Coalesce(T.align, 1), 1)

PrimitiveAlign(T) == Max(Coalesce(T.align, Coalesce(T.size, 1)), 1)

UINT_8 == Primitive("UINT_8", Some(1))

UINT_16 == Primitive("UINT_16", Some(2))

UINT_32 == Primitive("UINT_32", Some(4))

FLOAT_32 == Primitive("FLOAT_32", Some(4))

(***************************************************************************)
(* Size and alignment of any descriptor                                   *)
(***************************************************************************)

StringSize(T) == Max(T.size, 0)

StringAlign(T) == Max(Coalesce(T.align, 1), 1)

StructSize(T) == Max(Coalesce(T.size, T.sizeCalc), 0)

StructAlign(T) == Max(Coalesce(T.align, T.alignCalc), 1)

RECURSIVE TypeSize(_)
TypeSize(T) ==
    CASE T.kind = "primitive" -> PrimitiveSize(T)
      [] T.kind = "string" -> StringSize(T)
      [] T.kind = "array" -> Max(Coalesce(T.size, TypeSize(T.element) * T.length), 0)
      [] T.kind = "struct" -> StructSize(T)

RECURSIVE TypeAlign(_)
TypeAlign(T) ==
    CASE T.kind = "primitive" -> PrimitiveAlign(T)
      [] T.kind = "string" -> StringAlign(T)
      [] T.kind = "array" -> Max(Coalesce(T.align, TypeAlign(T.element)), 1)
      [] T.kind = "struct" -> StructAlign(T)

(***************************************************************************)
(* defineStruct: property / padding definitions and records               *)
(***************************************************************************)

\* the options argument { align?, offset?, order? }
Options(align, offset, order) == [align |-> align, offset |-> offset, order |-> order]

NoOptions == Options(Undefined, Undefined, Undefined)

defineProperty(type, options) ==
    [isPropertyDefinition |-> TRUE, type |-> type, align |-> options.align,
     offset |-> options.offset, order |-> options.order]

\* a plain number of bytes, where a descriptor or a number may be passed
Bytes(n) == [kind |-> "number", value |-> n]

definePadding(typeOrSize, options) ==
    IF typeOrSize.kind = "number"
    THEN [isPaddingDefinition |-> TRUE, size |-> typeOrSize.value,
          align |-> Coalesce(options.align, 1),
          offset |-> options.offset, order |-> options.order]
    ELSE [isPaddingDefinition |-> TRUE, size |-> TypeSize(typeOrSize),
          align |-> Coalesce(options.align, TypeAlign(typeOrSize)),
          offset |-> options.offset, order |-> options.order]

propertyToRecord(key, definition) ==
    [key |-> key, padding |-> FALSE, type |-> definition.type,
     align |-> definition.align, offset |-> 0, offsetStatic |-> definition.offset]

paddingToRecord(key, definition) ==
    [key |-> key, padding |-> TRUE, size |-> definition.size,
     align |-> definition.align, offset |-> 0, offsetStatic |-> definition.offset]

\* the size a record takes in the layout
RecordSize(record) == IF record.padding THEN record.size ELSE TypeSize(record.type)

\* the effective alignment of a record
RecordAlign(record) ==
    IF record.padding
    THEN Max(record.align, 1)
    ELSE Max(Coalesce(record.align, TypeAlign(record.type)), 1)

\* a plausible slip: no alignment padding is inserted
AlignPadding_None(offset, align) == 0

\* the bytes to skip so that offset becomes a multiple of align
AlignPadding(offset, align) == (align - (offset % align)) % align

\* a plausible slip: the size follows the cursor, not the furthest byte used
TrackMaxOffset_Cursor(maxOffset, offset) == offset

TrackMaxOffset(maxOffset, offset) == Max(maxOffset, offset)

\* a plausible slip: no trailing padding
EndPadding_None(maxOffset, maxAlign) == 0

EndPadding(maxOffset, maxAlign) == (maxAlign - (maxOffset % maxAlign)) % maxAlign

\* a plausible slip: a record that was placed by an earlier layout keeps its offset
PlaceRecord_KeepCached(record, offset) ==
    LET size == RecordSize(record)
        align == RecordAlign(record)
    IN  IF record.offset # 0
        THEN [record |-> record, offset |-> record.offset + size, align |-> align]
        ELSE LET placed == offset + AlignPadding(offset, align)
             IN  [record |-> [record EXCEPT !.offset = placed],
                  offset |-> placed + size,
                  align |-> align]

\* a plausible slip: a record with an explicit offset leaves the cursor where it was
PlaceRecord_CursorStays(record, offset) ==
    LET size == RecordSize(record)
        align == RecordAlign(record)
    IN  IF IsNumber(record.offsetStatic)
        THEN [record |-> [record EXCEPT !.offset = record.offsetStatic[1]],
              offset |-> offset,
              align |-> align]
        ELSE LET placed == offset + AlignPadding(offset, align)
             IN  [record |-> [record EXCEPT !.offset = placed],
                  offset |-> placed + size,
                  align |-> align]

\* one iteration of the loop of updateLayout: the record placed, the cursor after it
PlaceRecord(record, offset) ==
    LET size == RecordSize(record)
        align == RecordAlign(record)
    IN  IF IsNumber(record.offsetStatic)
        THEN [record |-> [record EXCEPT !.offset = record.offsetStatic[1]],
              offset |-> record.offsetStatic[1] + size,
              align |-> align]
        ELSE LET placed == offset + AlignPadding(offset, align)
             IN  [record |-> [record EXCEPT !.offset = placed],
                  offset |-> placed + size,
                  align |-> align]

\* the loop of updateLayout from record i on; state holds the locals
\* offset, maxAlign, maxOffset and the records placed so far
RECURSIVE LayoutLoop(_, _, _)
LayoutLoop(list, i, state) ==
    IF i > Len(list)
    THEN state
    ELSE LET step == PlaceRecord(list[i], state.offset)
         IN  LayoutLoop(list, i + 1,
                        [records |-> Append(state.records, step.record),
                         offset |-> step.offset,
                         maxAlign |-> Max(state.maxAlign, step.align),
                         maxOffset |-> TrackMaxOffset(state.maxOffset, step.offset)])

\* updateLayout: every offset, the calculated alignment and the calculated size
UpdateLayout(list) ==
    LET end == LayoutLoop(list, 1, [records |-> <<>>, offset |-> 0,
                                    maxAlign |-> 1, maxOffset |-> 0])
    IN  [recordList |-> end.records,
         alignCalc |-> end.maxAlign,
         sizeCalc |-> end.maxOffset + EndPadding(end.maxOffset, end.maxAlign)]

\* a plausible slip: the record is entered outside the else branch, padding or not
PropertyList_All(list) == list

\* _propertyList: the records that are not padding, in layout order
PropertyList(list) == SelectSeq(list, LAMBDA r : ~r.padding)

(***************************************************************************)
(* The buffer: a DataView, as the sequence of its bytes (byte o is buf[o+1]) *)
(***************************************************************************)

RECURSIVE Power256(_)
Power256(n) == IF n = 0 THEN 1 ELSE 256 * Power256(n - 1)

\* the position in memory of the byte of weight 256^i of a size-byte integer
ByteAt(offset, size, littleEndian, i) ==
    IF littleEndian = TRUE THEN offset + i ELSE offset + (size - 1 - i)

\* DataView.getUint8 / getUint16 / getUint32; littleEndian undefined reads big-endian
GetUint(buf, offset, size, littleEndian) ==
    LET sum[i \in 0..size] ==
            IF i = 0
            THEN 0
            ELSE sum[i - 1]
                 + buf[ByteAt(offset, size, littleEndian, i - 1) + 1] * Power256(i - 1)
    IN  sum[size]

\* DataView.setUint8 / setUint16 / setUint32: the value is taken modulo 2^(8 size),
\* so the byte of weight 256^i is (value div 256^i) mod 256
SetUint(buf, offset, size, littleEndian, value) ==
    [p \in 1..Len(buf) |->
        IF \E i \in 0..(size - 1) : ByteAt(offset, size, littleEndian, i) + 1 = p
        THEN LET i == CHOOSE i \in 0..(size - 1) :
                        ByteAt(offset, size, littleEndian, i) + 1 = p
             IN  (value \div Power256(i)) % 256
        ELSE buf[p]]

\* the getter of a predefined unsigned integer type
PrimitiveGetter(T, buf, offset, littleEndian) ==
    GetUint(buf, offset, PrimitiveSize(T), littleEndian)

\* the setter of a predefined unsigned integer type
PrimitiveSetter(T, buf, offset, littleEndian, value) ==
    SetUint(buf, offset, PrimitiveSize(T), littleEndian, value)

(***************************************************************************)
(* defineString: a string is the sequence of its code points; the default *)
(* coder is UTF-8 (TextEncoder / TextDecoder), modelled for code points   *)
(* below U+0800 and for bytes below 0xE0.                                 *)
(***************************************************************************)

\* defineString(size, filler)
String(size, filler) ==
    [kind |-> "string", size |-> size, align |-> Undefined, filler |-> filler]

ReplacementCharacter == 65533

\* TextEncoder.encode
RECURSIVE Encode(_)
Encode(string) ==
    IF string = <<>>
    THEN <<>>
    ELSE LET c == Head(string)
         IN  (IF c < 128
              THEN <<c>>
              ELSE <<192 + (c \div 64), 128 + (c % 64)>>) \o Encode(Tail(string))

IsContinuation(byte) == byte >= 128 /\ byte < 192

\* TextDecoder("utf-8").decode: malformed input decodes to U+FFFD
RECURSIVE Decode(_)
Decode(bytes) ==
    IF bytes = <<>>
    THEN <<>>
    ELSE LET b == Head(bytes)
         IN  IF b < 128
             THEN <<b>> \o Decode(Tail(bytes))
             ELSE IF b >= 194 /\ b < 224 /\ Len(bytes) >= 2 /\ IsContinuation(bytes[2])
             THEN <<(b - 192) * 64 + (bytes[2] - 128)>> \o Decode(Tail(Tail(bytes)))
             ELSE <<ReplacementCharacter>> \o Decode(Tail(bytes))

\* a plausible slip: the filler is not treated as a terminator
ScanLength_FullCapacity(T, buf, offset) == T.size

\* the loop of the string getter: the count of bytes before the first filler
ScanLength(T, buf, offset) ==
    IF IsNumber(T.filler)
       /\ \E index \in 0..(T.size - 1) : buf[offset + index + 1] = T.filler[1]
    THEN CHOOSE index \in 0..(T.size - 1) :
            /\ buf[offset + index + 1] = T.filler[1]
            /\ \A j \in 0..(index - 1) : buf[offset + j + 1] # T.filler[1]
    ELSE T.size

StringGetter(T, buf, offset) ==
    Decode(SubSeq(buf, offset + 1, offset + ScanLength(T, buf, offset)))

\* a plausible slip: the rest of the region is never padded
StringSetter_NoPadding(T, buf, offset, value) ==
    LET bytes == Encode(value)
        writeLength == Min(Len(bytes), T.size)
    IN  [p \in 1..Len(buf) |->
            IF p > offset /\ p <= offset + writeLength THEN bytes[p - offset] ELSE buf[p]]

\* a plausible slip: the rest of the region is cleared when no filler is configured
StringSetter_ClearRest(T, buf, offset, value) ==
    LET bytes == Encode(value)
        writeLength == Min(Len(bytes), T.size)
    IN  [p \in 1..Len(buf) |->
            IF p > offset /\ p <= offset + writeLength
            THEN bytes[p - offset]
            ELSE IF p > offset + writeLength /\ p <= offset + T.size
            THEN Coalesce(T.filler, Some(0))[1]
            ELSE buf[p]]

StringSetter(T, buf, offset, value) ==
    LET bytes == Encode(value)
        writeLength == Min(Len(bytes), T.size)
    IN  [p \in 1..Len(buf) |->
            IF p > offset /\ p <= offset + writeLength
            THEN bytes[p - offset]
            ELSE IF IsNumber(T.filler) /\ writeLength < T.size
                    /\ p > offset + writeLength /\ p <= offset + T.size
            THEN T.filler[1]
            ELSE buf[p]]

(***************************************************************************)
(* defineArray, and the getter / setter of every descriptor               *)
(***************************************************************************)

\* defineArray(element, length, fill)
Array(element, length, fill) ==
    [kind |-> "array", element |-> element, length |-> length, fill |-> fill,
     size |-> Undefined, align |-> Undefined]

RECURSIVE Getter(_, _, _, _)
RECURSIVE Setter(_, _, _, _, _)

ArrayGetter(T, buf, offset, littleEndian) ==
    [index \in 1..T.length |->
        Getter(T.element, buf, offset + (index - 1) * TypeSize(T.element), littleEndian)]

\* for (index = from; index < to; index++) _element.setter(..., valueAt(index))
\* values[index + 1] is the value written at index
RECURSIVE WriteElements(_, _, _, _, _, _, _)
WriteElements(T, buf, offset, littleEndian, values, from, to) ==
    IF from >= to
    THEN buf
    ELSE WriteElements(T,
                       Setter(T.element, buf, offset + from * TypeSize(T.element),
                              littleEndian, values[from + 1]),
                       offset, littleEndian, values, from + 1, to)

\* a plausible slip: a fill that is falsy (0) counts as not configured
FillConfigured_Truthy(fill) == fill # Undefined /\ fill # Some(0)

\* _fill !== void 0
FillConfigured(fill) == fill # Undefined

\* a plausible slip (the setter before fill existed): every index is written,
\* an index past the value's end with undefined, which a DataView stores as 0
ArraySetter_EveryIndex(T, buf, offset, littleEndian, value) ==
    WriteElements(T, buf, offset, littleEndian,
                  [index \in 1..T.length |->
                      IF index <= Len(value) THEN value[index] ELSE 0],
                  0, T.length)

ArraySetter(T, buf, offset, littleEndian, value) ==
    LET valueLength == Len(value)
        minLength == Min(valueLength, T.length)
        written == WriteElements(T, buf, offset, littleEndian, value, 0, minLength)
    IN  IF FillConfigured(T.fill) /\ valueLength < T.length
        THEN WriteElements(T, written, offset, littleEndian,
                           [index \in 1..T.length |-> T.fill[1]], valueLength, T.length)
        ELSE written

StructGetter(T, buf, offset, littleEndian) ==
    LET list == PropertyList(T.recordList)
    IN  [key \in {list[i].key : i \in 1..Len(list)} |->
            LET property == list[CHOOSE i \in 1..Len(list) :
                                    /\ list[i].key = key
                                    /\ \A j \in (i + 1)..Len(list) : list[j].key # key]
            IN  Getter(property.type, buf, offset + property.offset, littleEndian)]

\* for (const property of _propertyList) property.type.setter(..., value[property.key])
RECURSIVE WriteProperties(_, _, _, _, _, _)
WriteProperties(list, buf, offset, littleEndian, value, i) ==
    IF i > Len(list)
    THEN buf
    ELSE WriteProperties(list,
                         Setter(list[i].type, buf, offset + list[i].offset,
                                littleEndian, value[list[i].key]),
                         offset, littleEndian, value, i + 1)

\* a plausible slip: the fields are written at their offsets in the struct,
\* without the offset of the struct in the DataView
StructSetter_AtZero(T, buf, offset, littleEndian, value) ==
    WriteProperties(PropertyList(T.recordList), buf, 0, littleEndian, value, 1)

StructSetter(T, buf, offset, littleEndian, value) ==
    WriteProperties(PropertyList(T.recordList), buf, offset, littleEndian, value, 1)

\* type.getter({ view, offset, littleEndian })
Getter(T, buf, offset, littleEndian) ==
    CASE T.kind = "primitive" -> PrimitiveGetter(T, buf, offset, littleEndian)
      [] T.kind = "string" -> StringGetter(T, buf, offset)
      [] T.kind = "array" -> ArrayGetter(T, buf, offset, littleEndian)
      [] T.kind = "struct" -> StructGetter(T, buf, offset, littleEndian)

\* type.setter({ view, offset, littleEndian }, value)
Setter(T, buf, offset, littleEndian, value) ==
    CASE T.kind = "primitive" -> PrimitiveSetter(T, buf, offset, littleEndian, value)
      [] T.kind = "string" -> StringSetter(T, buf, offset, value)
      [] T.kind = "array" -> ArraySetter(T, buf, offset, littleEndian, value)
      [] T.kind = "struct" -> StructSetter(T, buf, offset, littleEndian, value)

(***************************************************************************)
(* The struct builder: the closure state of one defineStruct() call       *)
(***************************************************************************)

VARIABLES
    recordList,     \* _recordList: the ordered property and padding records
    sizeCalc,       \* _sizeCalc
    alignCalc,      \* _alignCalc
    sizeOverride,   \* _size, set by setSize
    threw           \* TRUE when the last call threw an Error

layoutVars == <<recordList, sizeCalc, alignCalc, sizeOverride, threw>>

VARIABLES
    boundType,      \* the descriptor passed to get / set / reactive
    littleEndian,   \* the littleEndian argument of the calls
    buffer,         \* the bytes of the DataView
    bufferBefore,   \* the bytes as they were when the last write was called
    lastWrite       \* <<[offset, value]>> of the last set() call, <<>> if none

ioVars == <<boundType, littleEndian, buffer, bufferBefore, lastWrite>>

VARIABLES
    offsetNow,      \* what the offset argument of reactive() returns when called now
    bindOffset,     \* what it returned when reactive() was called
    getterMap,      \* the memoized accessors of the proxies: path -> captured context
    lastOp,         \* the last operation on the view
    opCount         \* the number of operations on the view so far

viewVars == <<offsetNow, bindOffset, getterMap, lastOp, opCount>>

VARIABLE
    declared        \* history: the fields as the caller declared them, <<[key, order]>>

VARIABLE
    cachedArray     \* cachedArray of the array proxies: path -> the snapshot getArray() keeps

VARIABLE
    frozen          \* <<the descriptor the last freeze() returned>>, <<>> before any

VARIABLE
    alias           \* a second reactive view of the same DataView: [offset, getterMap]

VARIABLE
    fieldType       \* a descriptor that stays mutable after it became the type of a field

\* a struct descriptor as a value (what typeDefinition's getters read)
StructType(list, sCalc, aCalc, size, align) ==
    [kind |-> "struct", recordList |-> list, sizeCalc |-> sCalc, alignCalc |-> aCalc,
     size |-> size, align |-> align]

\* the builder under construction; setAlign is never called on it
typeDefinition == StructType(recordList, sizeCalc, alignCalc, sizeOverride, Undefined)

\* _keys
KeysOf(list) == [i \in 1..Len(PropertyList(list)) |-> PropertyList(list)[i].key]

\* the ownKeys trap of the struct's proxy: _keys
ownKeys(T) == KeysOf(T.recordList)

\* the has trap of the struct's proxy: _properties.has(key)
has(T, key) ==
    \E i \in 1..Len(PropertyList(T.recordList)) : PropertyList(T.recordList)[i].key = key

\* a plausible slip: only the properties are searched, the padding records are not
HasRecord_PropertiesOnly(list, key) ==
    \E i \in 1..Len(list) : list[i].key = key /\ ~list[i].padding

\* _recordList.find(x => x.key === key)
HasRecord(list, key) == \E i \in 1..Len(list) : list[i].key = key

\* findIndex(x => x.key === key), 0 when there is none
FindIndex(list, key) ==
    IF HasRecord(list, key)
    THEN CHOOSE i \in 1..Len(list) :
            /\ list[i].key = key
            /\ \A j \in 1..(i - 1) : list[j].key # key
    ELSE 0

\* the records of the layout stored back into the closure
Relayout(list) ==
    LET layout == UpdateLayout(list)
    IN  /\ recordList' = layout.recordList
        /\ sizeCalc' = layout.sizeCalc
        /\ alignCalc' = layout.alignCalc

\* throw new Error(...): the call ends before any assignment
Throw ==
    /\ threw' = TRUE
    /\ UNCHANGED <<recordList, sizeCalc, alignCalc, sizeOverride>>

\* addRecord
addRecord(record) ==
    IF HasRecord(recordList, record.key)
    THEN Throw
    ELSE /\ Relayout(Append(recordList, record))
         /\ threw' = FALSE
         /\ UNCHANGED sizeOverride

\* updateRecord
updateRecord(record) ==
    LET index == FindIndex(recordList, record.key)
    IN  IF index = 0
        THEN Throw
        ELSE /\ Relayout([recordList EXCEPT ![index] = record])
             /\ threw' = FALSE
             /\ UNCHANGED sizeOverride

\* addProperty(key, type, options)
AddProperty(key, type, options) ==
    addRecord(propertyToRecord(key, defineProperty(type, options)))

\* addPadding(key, typeOrSize, options)
AddPadding(key, typeOrSize, options) ==
    addRecord(paddingToRecord(key, definePadding(typeOrSize, options)))

\* updateProperty(key, type, options)
UpdateProperty(key, type, options) ==
    updateRecord(propertyToRecord(key, defineProperty(type, options)))

\* updatePadding(key, typeOrSize, options)
UpdatePadding(key, typeOrSize, options) ==
    updateRecord(paddingToRecord(key, definePadding(typeOrSize, options)))

\* remove(key)
Remove(key) ==
    LET index == FindIndex(recordList, key)
    IN  IF index = 0
        THEN Throw
        ELSE /\ Relayout(SubSeq(recordList, 1, index - 1)
                         \o SubSeq(recordList, index + 1, Len(recordList)))
             /\ threw' = FALSE
             /\ UNCHANGED sizeOverride

\* setSize(size)
SetSize(size) ==
    /\ sizeOverride' = size
    /\ threw' = FALSE
    /\ UNCHANGED <<recordList, sizeCalc, alignCalc>>

\* the keys of an array proxy are the decimal strings of its indices
IndexKeys == <<"0", "1", "2", "3">>

IndexKey(index) == IndexKeys[index + 1]

\* Number(key)
IndexOf(key) == CHOOSE index \in 0..(Len(IndexKeys) - 1) : IndexKeys[index + 1] = key

\* an integer-like key ("0", "1", ...), which JavaScript enumerates first
IsIntegerKey(key) == \E i \in 1..Len(IndexKeys) : IndexKeys[i] = key

\* Array.prototype.sort((a, b) => a.order - b.order): stable, ascending
SortByOrder(list) ==
    LET sorted[i \in 0..Len(list)] ==
            IF i = 0
            THEN <<>>
            ELSE LET before == sorted[i - 1]
                     x == list[i]
                     \* x goes after every entry whose order is not larger
                     n == Cardinality({j \in 1..Len(before) : before[j].order <= x.order})
                 IN  SubSeq(before, 1, n) \o <<x>> \o SubSeq(before, n + 1, Len(before))
    IN  sorted[Len(list)]

\* one entry of the options object of setProperties, as a record
OptionToRecord(entry) ==
    IF "isPropertyDefinition" \in DOMAIN entry.option
    THEN propertyToRecord(entry.key, entry.option)
    ELSE IF "isPaddingDefinition" \in DOMAIN entry.option
    THEN paddingToRecord(entry.key, entry.option)
    ELSE \* a pure type
         [key |-> entry.key, padding |-> FALSE, type |-> entry.option,
          align |-> Undefined, offset |-> 0, offsetStatic |-> Undefined]

\* a plausible slip: if (option.order) instead of typeof option.order === "number"
HasOrder_Truthy(entry) ==
    /\ "order" \in DOMAIN entry.option
    /\ IsNumber(entry.option.order)
    /\ entry.option.order[1] # 0

HasOrder(entry) ==
    /\ "order" \in DOMAIN entry.option
    /\ IsNumber(entry.option.order)

\* the keys that stand for symbols: Symbol("s") is the key "Symbol(s)"
SymbolKeys == {"Symbol(s)"}

\* typeof key === "symbol"
IsSymbolKey(key) == key \in SymbolKeys

\* the keys Object.entries yields: the string keys, never a symbol
EnumerableKey(key) == ~IsSymbolKey(key)

\* Object.entries(options) of an object whose keys were entered in the order
\* of the sequence: integer-like keys first, ascending, then the other string
\* keys in the order entered; symbol keys are not enumerated
ObjectEntries(options) ==
    LET integers == SelectSeq(options, LAMBDA e : IsIntegerKey(e.key))
        strings == SelectSeq(options, LAMBDA e : ~IsIntegerKey(e.key) /\ EnumerableKey(e.key))
        indexed == SortByOrder([i \in 1..Len(integers) |->
                                   [order |-> IndexOf(integers[i].key),
                                    property |-> integers[i]]])
    IN  [i \in 1..Len(indexed) |-> indexed[i].property] \o strings

\* the record list setProperties builds from Object.entries(options)
OptionsToList(options) ==
    LET entries == ObjectEntries(options)
        ordered == SelectSeq(entries, HasOrder)
        orderList == [i \in 1..Len(ordered) |->
                        [order |-> ordered[i].option.order[1],
                         property |-> OptionToRecord(ordered[i])]]
        rest == SelectSeq(entries, LAMBDA e : ~HasOrder(e))
        list == [i \in 1..Len(rest) |-> OptionToRecord(rest[i])]
        sorted == SortByOrder(orderList)
    IN  [i \in 1..Len(sorted) |-> sorted[i].property] \o list

\* setProperties(options)
SetProperties(options) ==
    /\ Relayout(OptionsToList(options))
    /\ threw' = FALSE
    /\ UNCHANGED sizeOverride

\* defineStruct(options).freeze(), as a descriptor value
DefineStruct(options) ==
    LET layout == UpdateLayout(OptionsToList(options))
    IN  StructType(layout.recordList, layout.sizeCalc, layout.alignCalc,
                   Undefined, Undefined)

(***************************************************************************)
(* Inputs of the builder operations                                       *)
(***************************************************************************)

MaxKeys == 3

KeyNames == <<"a", "b", "p", "q", "r">>

Keys == {KeyNames[i] : i \in 1..Min(MaxKeys, Len(KeyNames))}

Align(n) == Options(Some(n), Undefined, Undefined)

Offset(n) == Options(Undefined, Some(n), Undefined)

Order(n) == Options(Undefined, Undefined, Some(n))

PropertyInputs == {<<UINT_8, NoOptions>>, <<FLOAT_32, NoOptions>>, <<FLOAT_32, Align(1)>>}

PaddingInputs == {<<Bytes(32), NoOptions>>}

Entry(key, option) == [key |-> key, option |-> option]

\* option objects: compact layout, manual layout, explicit order, padding from a type
OptionsInputs ==
    {<<Entry("a", defineProperty(UINT_8, Options(Some(1), Undefined, Some(0)))),
       Entry("b", defineProperty(FLOAT_32, Options(Some(1), Undefined, Some(1))))>>,
     <<Entry("a", defineProperty(UINT_8, Offset(32))),
       Entry("b", defineProperty(FLOAT_32, Offset(36)))>>,
     <<Entry("b", defineProperty(FLOAT_32, Offset(36))),
       Entry("a", defineProperty(UINT_8, Offset(32)))>>,
     <<Entry("a", FLOAT_32),
       Entry("b", defineProperty(UINT_8, Order(1))),
       Entry("p", definePadding(UINT_16, Order(0)))>>}

SizeInputs == {Undefined, Some(2)}

(***************************************************************************)
(* The builder's specification                                            *)
(***************************************************************************)

vars == <<layoutVars, ioVars, viewVars, declared, cachedArray, frozen, alias, fieldType>>

\* defineStruct(): no record, _sizeCalc = 0, _alignCalc = 1
InitBuilder ==
    /\ recordList = <<>>
    /\ sizeCalc = 0
    /\ alignCalc = 1
    /\ sizeOverride = Undefined
    /\ threw = FALSE
    /\ declared = <<>>
    /\ frozen = <<>>
    /\ alias = <<>>
    /\ fieldType = <<>>

\* no buffer is in use
NoBuffer ==
    /\ boundType = UINT_8
    /\ littleEndian = FALSE
    /\ buffer = <<>>
    /\ bufferBefore = <<>>
    /\ lastWrite = <<>>

\* no view is bound
NoView ==
    /\ offsetNow = 0
    /\ bindOffset = 0
    /\ getterMap = <<>>
    /\ cachedArray = <<>>
    /\ lastOp = <<>>
    /\ opCount = 0

Init == InitBuilder /\ NoBuffer /\ NoView

Next ==
    \/ \E key \in Keys, input \in PropertyInputs :
          AddProperty(key, input[1], input[2]) /\ UNCHANGED <<ioVars, viewVars, declared, cachedArray, frozen, alias, fieldType>>
    \/ \E key \in Keys, input \in PaddingInputs :
          AddPadding(key, input[1], input[2]) /\ UNCHANGED <<ioVars, viewVars, declared, cachedArray, frozen, alias, fieldType>>
    \/ \E key \in Keys, input \in PropertyInputs :
          UpdateProperty(key, input[1], input[2]) /\ UNCHANGED <<ioVars, viewVars, declared, cachedArray, frozen, alias, fieldType>>
    \/ \E key \in Keys, input \in PaddingInputs :
          UpdatePadding(key, input[1], input[2]) /\ UNCHANGED <<ioVars, viewVars, declared, cachedArray, frozen, alias, fieldType>>
    \/ \E key \in Keys : Remove(key) /\ UNCHANGED <<ioVars, viewVars, declared, cachedArray, frozen, alias, fieldType>>
    \/ \E options \in OptionsInputs : SetProperties(options) /\ UNCHANGED <<ioVars, viewVars, declared, cachedArray, frozen, alias, fieldType>>
    \/ \E size \in SizeInputs : SetSize(size) /\ UNCHANGED <<ioVars, viewVars, declared, cachedArray, frozen, alias, fieldType>>

Spec == Init /\ [][Next]_vars

(***************************************************************************)
(* The builder driven as in the package's test: keys bar, foo, 1 and      *)
(* types of size 1, 4 and 10 (align 4), added, updated and removed        *)
(***************************************************************************)

CHAR == Primitive("CHAR", Some(1))

INT == Primitive("INT", Some(4))

\* definePrimitive("").setSize(10).setAlign(4)
TestA == [Primitive("", Some(10)) EXCEPT !.align = Some(4)]

TestKeyNames == <<"bar", "foo", "1", "baz">>

TestKeys == {TestKeyNames[i] : i \in 1..Min(MaxKeys, Len(TestKeyNames))}

TestInputs == {<<CHAR, NoOptions>>, <<INT, NoOptions>>, <<TestA, NoOptions>>, <<INT, Offset(32)>>}

NextTest ==
    \/ \E key \in TestKeys, input \in TestInputs :
          AddProperty(key, input[1], input[2]) /\ UNCHANGED <<ioVars, viewVars, declared, cachedArray, frozen, alias, fieldType>>
    \/ \E key \in TestKeys, input \in TestInputs :
          UpdateProperty(key, input[1], input[2]) /\ UNCHANGED <<ioVars, viewVars, declared, cachedArray, frozen, alias, fieldType>>
    \/ \E key \in TestKeys, input \in PaddingInputs :
          AddPadding(key, input[1], input[2]) /\ UNCHANGED <<ioVars, viewVars, declared, cachedArray, frozen, alias, fieldType>>
    \/ \E key \in TestKeys, input \in PaddingInputs :
          UpdatePadding(key, input[1], input[2]) /\ UNCHANGED <<ioVars, viewVars, declared, cachedArray, frozen, alias, fieldType>>
    \/ \E key \in TestKeys : Remove(key) /\ UNCHANGED <<ioVars, viewVars, declared, cachedArray, frozen, alias, fieldType>>

SpecTest == Init /\ [][NextTest]_vars

(***************************************************************************)
(* Declarations that carry an order index: setProperties with option      *)
(* objects, and chained adds whose options argument holds an order        *)
(***************************************************************************)

OrderKeyNames == <<"n", "1", "m", "0">>

OrderKeys == {OrderKeyNames[i] : i \in 1..Min(MaxKeys, Len(OrderKeyNames))}

\* the options argument of addProperty, with and without an order
OrderPropertyInputs == {<<UINT_8, NoOptions>>, <<UINT_16, Order(0)>>, <<UINT_8, Order(1)>>}

OrderPaddingInputs == {<<Bytes(2), Order(0)>>}

\* object literals, their keys in the order they are written
OrderOptionsInputs ==
    {<<Entry("n", UINT_8),
       Entry("m", defineProperty(UINT_16, Order(1))),
       Entry("1", defineProperty(UINT_8, Order(1)))>>,
     <<Entry("n", defineProperty(UINT_8, Order(2))),
       Entry("m", definePadding(Bytes(2), Order(0)))>>,
     <<Entry("m", UINT_8),
       Entry("n", defineProperty(UINT_16, Order(0)))>>,
     <<Entry("n", UINT_8),
       Entry("1", UINT_16)>>}

\* what the caller declared: the key, the order index given, and the call used
Declaration(key, order, by) == [key |-> key, order |-> order, by |-> by]

\* the order index an entry of an options object carries
OrderOfEntry(entry) ==
    IF "order" \in DOMAIN entry.option THEN entry.option.order ELSE Undefined

\* struct.addProperty(key, type, options)
DeclareProperty(key, type, options) ==
    /\ AddProperty(key, type, options)
    /\ declared' = IF threw' THEN declared
                   ELSE Append(declared, Declaration(key, options.order, "add"))

\* struct.addPadding(key, typeOrSize, options)
DeclarePadding(key, typeOrSize, options) ==
    /\ AddPadding(key, typeOrSize, options)
    /\ declared' = IF threw' THEN declared
                   ELSE Append(declared, Declaration(key, options.order, "add"))

\* struct.setProperties(options)
DeclareOptions(options) ==
    /\ SetProperties(options)
    /\ declared' = [i \in 1..Len(options) |->
                       Declaration(options[i].key, OrderOfEntry(options[i]), "options")]

\* struct.remove(key)
DeclareRemove(key) ==
    /\ Remove(key)
    /\ declared' = IF threw' THEN declared
                   ELSE SelectSeq(declared, LAMBDA d : d.key # key)

NextOrder ==
    \/ \E key \in OrderKeys : \E input \in OrderPropertyInputs :
          DeclareProperty(key, input[1], input[2]) /\ UNCHANGED <<ioVars, viewVars, cachedArray, frozen, alias, fieldType>>
    \/ \E key \in OrderKeys : \E input \in OrderPaddingInputs :
          DeclarePadding(key, input[1], input[2]) /\ UNCHANGED <<ioVars, viewVars, cachedArray, frozen, alias, fieldType>>
    \/ \E options \in OrderOptionsInputs :
          DeclareOptions(options) /\ UNCHANGED <<ioVars, viewVars, cachedArray, frozen, alias, fieldType>>
    \/ \E key \in OrderKeys : DeclareRemove(key) /\ UNCHANGED <<ioVars, viewVars, cachedArray, frozen, alias, fieldType>>

SpecOrder == Init /\ [][NextOrder]_vars

(***************************************************************************)
(* Plain reads and writes: get(view, type, offset, littleEndian) and      *)
(* set(view, type, offset, value, littleEndian)                           *)
(***************************************************************************)

\* the README's example array: four UINT_32, no fill
ARRAY_4 == Array(UINT_32, 4, Undefined)

\* three UINT_32, fill 0
ARRAY_FILL == Array(UINT_32, 3, Some(0))

\* a null-terminated string of 5 bytes: defineString(5, 0)
STRING_FILLER == String(5, Some(0))

\* a string of 3 bytes without filler: defineString(3)
STRING_PLAIN == String(3, Undefined)

\* a struct of every kind of field, nested
PERSON ==
    DefineStruct(<<Entry("id", UINT_8),
                   Entry("name", String(2, Some(0))),
                   Entry("friends", Array(UINT_16, 2, Undefined))>>)

\* a union-style struct: two fields share a byte through explicit offsets
OVERLAY ==
    DefineStruct(<<Entry("word", defineProperty(UINT_16, Offset(0))),
                   Entry("low", defineProperty(UINT_8, Offset(1)))>>)

IoTypeInputs == {ARRAY_4, ARRAY_FILL, STRING_FILLER, STRING_PLAIN, PERSON, OVERLAY}

\* the values passed to set() for a descriptor
IoValueInputs(T) ==
    CASE T = ARRAY_4 -> {<<10, 20>>, <<258, 3, 4, 5>>, <<1, 2, 3, 4, 6>>}
      [] T = ARRAY_FILL -> {<<10, 20>>, <<7, 258, 9>>, <<1, 2, 3, 4>>, <<>>}
      [] T = STRING_FILLER ->
            {<<65, 66>>, <<65, 66, 67, 68, 69>>, <<65, 66, 67, 68, 69, 70>>,
             <<233>>, <<65, 0, 66>>, <<>>}
      [] T = STRING_PLAIN ->
            {<<65, 66>>, <<67, 68, 69>>, <<65, 66, 67, 68>>, <<65, 66, 233>>, <<65, 0, 66>>}
      [] T = PERSON ->
            {[id |-> 1, name |-> <<65, 66>>, friends |-> <<2, 258>>],
             [id |-> 200, name |-> <<67>>, friends |-> <<3, 4>>]}
      [] T = OVERLAY -> {[word |-> 258, low |-> 7], [word |-> 7, low |-> 7]}

MaxWriteOffset == 1

\* the offset argument of set()
IoOffsetInputs == 0..MaxWriteOffset

\* the DataView is as long as the furthest write needs
IoBufferLength(T) == TypeSize(T) + MaxWriteOffset

\* set(view, type, offset, value, littleEndian)
Write(offset, value) ==
    /\ buffer' = Setter(boundType, buffer, offset, littleEndian, value)
    /\ bufferBefore' = buffer
    /\ lastWrite' = <<[offset |-> offset, value |-> value]>>
    /\ UNCHANGED <<boundType, littleEndian>>

\* a DataView of bytes that are neither 0 nor equal to one another
BindBuffer ==
    /\ boundType \in IoTypeInputs
    /\ littleEndian \in BOOLEAN
    /\ buffer = [p \in 1..IoBufferLength(boundType) |-> 100 + p]
    /\ bufferBefore = buffer
    /\ lastWrite = <<>>

InitIo == InitBuilder /\ BindBuffer /\ NoView

NextIo ==
    \E offset \in IoOffsetInputs, value \in IoValueInputs(boundType) :
        Write(offset, value) /\ UNCHANGED <<layoutVars, viewVars, declared, cachedArray, frozen, alias, fieldType>>

SpecIo == InitIo /\ [][NextIo]_vars

(***************************************************************************)
(* Reactive views: reactive(view, type, offset, littleEndian) and toRaw.  *)
(* A proxy is named by the path of keys that leads to it from the root    *)
(* proxy; the getterMap of every proxy is kept in one map from paths.     *)
(***************************************************************************)

\* _properties.get(key)
PropertyOf(T, key) ==
    LET list == PropertyList(T.recordList)
    IN  list[CHOOSE i \in 1..Len(list) : list[i].key = key]

IsComposite(T) == T.kind \in {"struct", "array"}

\* the keys a proxy of T answers: _properties' keys, or the indices below _length
MemberKeys(T) ==
    IF T.kind = "struct"
    THEN {PropertyList(T.recordList)[i].key : i \in 1..Len(PropertyList(T.recordList))}
    ELSE {IndexKey(index) : index \in 0..(T.length - 1)}

\* property.type, or _element
MemberType(T, key) ==
    IF T.kind = "struct" THEN PropertyOf(T, key).type ELSE T.element

\* property.offset, or index * _element.size
MemberOffset(T, key) ==
    IF T.kind = "struct"
    THEN PropertyOf(T, key).offset
    ELSE IndexOf(key) * TypeSize(T.element)

RECURSIVE TypeAt(_, _)
TypeAt(T, path) ==
    IF path = <<>> THEN T ELSE TypeAt(MemberType(T, Head(path)), Tail(path))

\* every chain of property and index accesses T allows
RECURSIVE Paths(_)
Paths(T) ==
    IF ~IsComposite(T)
    THEN {<<>>}
    ELSE {<<>>} \cup UNION {{<<key>> \o path : path \in Paths(MemberType(T, key))} :
                              key \in MemberKeys(T)}

\* a plausible slip: the offset is resolved once, when the view is bound
BaseOffset_Bound == bindOffset

\* baseOffset(): typeof offset === "function" ? offset : () => offset
BaseOffset == offsetNow

\* a plausible slip: the child's context forgets the offset of its parent
ChildLocalOffset_Member(localOffset, memberOffset) == memberOffset

\* localOffset of a child context:
\* localOffset + property.offset, or localOffset + index * _element.size
ChildLocalOffset(localOffset, memberOffset) == localOffset + memberOffset

\* a plausible slip: the set trap addresses the member from the start of the root
SetTrapOffset_NoLocal(base, localOffset, memberOffset) == base + memberOffset

\* offset of the set trap: baseOffset() + localOffset + property.offset
SetTrapOffset(base, localOffset, memberOffset) == base + localOffset + memberOffset

\* a plausible slip: every accessor takes the context of the root
LocalOffsetOf_Root(map, path) == 0

\* the localOffset in the context of the proxy at a path; reactive() gives the root 0
LocalOffsetOf(map, path) == IF path = <<>> THEN 0 ELSE map[path].localOffset

\* view.k1.k2...: the get traps along a path; a trap that finds no accessor
\* in its getterMap builds the child context and memoizes the accessor
RECURSIVE Resolve(_, _, _)
Resolve(map, path, n) ==
    IF n > Len(path)
    THEN map
    ELSE LET prefix == SubSeq(path, 1, n)
             parent == SubSeq(path, 1, n - 1)
             context == [localOffset |->
                           ChildLocalOffset(LocalOffsetOf(map, parent),
                                            MemberOffset(TypeAt(boundType, parent), path[n]))]
         IN  Resolve(IF prefix \in DOMAIN map THEN map ELSE map @@ (prefix :> context),
                     path, n + 1)

Plain(value) == [kind |-> "plain", value |-> value]

Proxy(path) == [kind |-> "proxy", path |-> path]

\* what the memoized accessor of a path returns: the proxy of a composite, or
\* the leaf read at localOffset + baseOffset()
Accessor(map, path) ==
    LET T == TypeAt(boundType, path)
    IN  IF IsComposite(T)
        THEN Proxy(path)
        ELSE Plain(Getter(T, buffer, LocalOffsetOf(map, path) + BaseOffset, littleEndian))

\* proxyToRaw: typeDefinition.getter at baseOffset() + localOffset
ProxyToRaw(map, path) ==
    Getter(TypeAt(boundType, path), buffer, BaseOffset + LocalOffsetOf(map, path),
           littleEndian)

\* toRaw(value)
toRaw(map, x) == IF x.kind = "proxy" THEN ProxyToRaw(map, x.path) ELSE x.value

\* a struct nested in a struct, with an array at its end
INNER ==
    DefineStruct(<<Entry("x", UINT_8),
                   Entry("list", Array(UINT_16, 2, Undefined))>>)

OUTER ==
    DefineStruct(<<Entry("id", UINT_8),
                   Entry("inner", INNER)>>)

PAIR ==
    DefineStruct(<<Entry("lo", UINT_8),
                   Entry("tag", String(2, Some(0))),
                   Entry("hi", UINT_16)>>)

\* an array of structs
TABLE == Array(PAIR, 2, Undefined)

ViewTypeInputs == {OUTER, TABLE}

\* a value of T that differs from what the buffer holds at first
RECURSIVE SampleValue(_)
SampleValue(T) ==
    CASE T.kind = "primitive" -> IF PrimitiveSize(T) = 1 THEN 9 ELSE 258
      [] T.kind = "string" -> <<65>>
      [] T.kind = "array" -> [i \in 1..T.length |-> SampleValue(T.element)]
      [] T.kind = "struct" -> [key \in MemberKeys(T) |-> SampleValue(MemberType(T, key))]

\* the values assigned through the view: a whole value, and a shorter array
ViewValueInputs(T) ==
    {SampleValue(T)}
    \cup (IF T.kind = "array" THEN {<<SampleValue(T.element)>>} ELSE {})

MaxBase == 8

\* the results of the offset resolver
BaseInputs == {0, MaxBase}

MaxOps == 3

Op(op, path, cached, arg, result) ==
    [op |-> op, path |-> path, cached |-> cached, arg |-> arg, result |-> result]

\* reading view.k1.k2...kn
ViewGet(path) ==
    /\ opCount < MaxOps
    /\ LET map == Resolve(getterMap, path, 1)
       IN  /\ getterMap' = map
           /\ lastOp' = Op("get", path, path \in DOMAIN getterMap, <<>>, Accessor(map, path))
    /\ opCount' = opCount + 1
    /\ UNCHANGED <<offsetNow, bindOffset, ioVars>>

\* view.k1.k2...kn = value: get traps up to the parent, then the parent's set trap
ViewSet(path, value) ==
    /\ opCount < MaxOps
    /\ LET parent == SubSeq(path, 1, Len(path) - 1)
           map == Resolve(getterMap, parent, 1)
           offset == SetTrapOffset(BaseOffset, LocalOffsetOf(map, parent),
                                   MemberOffset(TypeAt(boundType, parent), path[Len(path)]))
       IN  /\ getterMap' = map
           /\ buffer' = Setter(TypeAt(boundType, path), buffer, offset, littleEndian, value)
           /\ bufferBefore' = buffer
           /\ lastOp' = Op("set", path, path \in DOMAIN getterMap, value, <<>>)
    /\ opCount' = opCount + 1
    /\ UNCHANGED <<offsetNow, bindOffset, boundType, littleEndian, lastWrite>>

\* toRaw(view.k1.k2...kn), and toRaw(view) for the empty path
ViewToRaw(path) ==
    /\ opCount < MaxOps
    /\ LET map == Resolve(getterMap, path, 1)
           x == Accessor(map, path)
       IN  /\ getterMap' = map
           /\ lastOp' = Op("toRaw", path, path \in DOMAIN getterMap, x, toRaw(map, x))
    /\ opCount' = opCount + 1
    /\ UNCHANGED <<offsetNow, bindOffset, ioVars>>

\* the offset resolver starts to return another offset
Relocate(offset) ==
    /\ opCount < MaxOps
    /\ offset # offsetNow
    /\ offsetNow' = offset
    /\ lastOp' = Op("relocate", <<>>, FALSE, offset, <<>>)
    /\ opCount' = opCount + 1
    /\ UNCHANGED <<bindOffset, getterMap, ioVars>>

\* reactive(view, type, offset, littleEndian) over bytes that differ from one another
InitView ==
    /\ InitBuilder
    /\ boundType \in ViewTypeInputs
    /\ littleEndian \in BOOLEAN
    /\ offsetNow \in BaseInputs
    /\ bindOffset = offsetNow
    /\ buffer = [p \in 1..(MaxBase + TypeSize(boundType)) |-> 100 + p]
    /\ bufferBefore = buffer
    /\ lastWrite = <<>>
    /\ getterMap = <<>>
    /\ cachedArray = <<>>
    /\ lastOp = Op("reactive", <<>>, FALSE, <<>>, <<>>)
    /\ opCount = 0

NextView ==
    \/ \E path \in Paths(boundType) \ {<<>>} : ViewGet(path) /\ UNCHANGED <<layoutVars, declared, cachedArray, frozen, alias, fieldType>>
    \/ \E path \in Paths(boundType) \ {<<>>} :
          \E value \in ViewValueInputs(TypeAt(boundType, path)) :
              ViewSet(path, value) /\ UNCHANGED <<layoutVars, declared, cachedArray, frozen, alias, fieldType>>
    \/ \E path \in Paths(boundType) : ViewToRaw(path) /\ UNCHANGED <<layoutVars, declared, cachedArray, frozen, alias, fieldType>>
    \/ \E offset \in BaseInputs : Relocate(offset) /\ UNCHANGED <<layoutVars, declared, cachedArray, frozen, alias, fieldType>>

SpecView == InitView /\ [][NextView]_vars

(***************************************************************************)
(* Array methods called through the proxy of a reactive array: callArray  *)
(***************************************************************************)

ARRAY_BYTES == Array(UINT_8, 3, Undefined)

ARRAY_BYTES_FILL == Array(UINT_8, 3, Some(0))

ArrayTypeInputs == {ARRAY_BYTES, ARRAY_BYTES_FILL, TABLE}

\* the methods of Array.prototype whose result has another length
LengthChanging == {"push", "pop", "shift", "unshift"}

ArrayMethods == LengthChanging \cup {"reverse"}

Reverse(array) == [i \in 1..Len(array) |-> array[Len(array) + 1 - i]]

\* func.call(copyArray, ...param): the array the call leaves in copyArray
ArrayMethod(method, array, param) ==
    CASE method = "push" -> Append(array, Plain(param))
      [] method = "pop" -> SubSeq(array, 1, Len(array) - 1)
      [] method = "shift" -> SubSeq(array, 2, Len(array))
      [] method = "unshift" -> <<Plain(param)>> \o array
      [] method = "reverse" -> Reverse(array)
      [] method = "fill" -> [i \in 1..Len(array) |-> Plain(param)]
      [] method \in {"slice", "indexOf", "includes"} -> array

\* getElement(index) for every index below count: the get traps of the elements
RECURSIVE ResolveElements(_, _, _)
ResolveElements(map, path, count) ==
    IF count = 0
    THEN map
    ELSE Resolve(ResolveElements(map, path, count - 1),
                 path \o <<IndexKey(count - 1)>>, 1)

\* getArray(): the cached snapshot, or one built from getElement(index) now
GetArray(cache, map, path) ==
    IF path \in DOMAIN cache
    THEN cache[path]
    ELSE [index \in 1..TypeAt(boundType, path).length |->
             Accessor(map, path \o <<IndexKey(index - 1)>>)]

\* view.k1...kn[method](param): the caller that callArray returns
CallArray(path, method, param) ==
    /\ opCount < MaxOps
    /\ LET T == TypeAt(boundType, path)
           cached == path \in DOMAIN cachedArray
           map == IF cached
                  THEN Resolve(getterMap, path, 1)
                  ELSE ResolveElements(Resolve(getterMap, path, 1), path, T.length)
           array == GetArray(cachedArray, map, path)
           copyArray == ArrayMethod(method, array, param)
       IN  /\ getterMap' = map
           /\ cachedArray' = IF cached THEN cachedArray ELSE cachedArray @@ (path :> array)
           /\ buffer' = Setter(T, buffer, BaseOffset + LocalOffsetOf(map, path), littleEndian,
                               [i \in 1..Len(copyArray) |-> toRaw(map, copyArray[i])])
           /\ bufferBefore' = buffer
           /\ lastOp' = Op(method, path, cached, param, Len(copyArray))
    /\ threw' = FALSE
    /\ opCount' = opCount + 1
    /\ UNCHANGED <<offsetNow, bindOffset, boundType, littleEndian, lastWrite>>
    /\ UNCHANGED <<recordList, sizeCalc, alignCalc, sizeOverride>>

\* the paths of the array proxies of a view
ArrayPaths(T) == {path \in Paths(T) : TypeAt(T, path).kind = "array"}

\* reactive(view, arrayType, offset, littleEndian)
InitArray ==
    /\ InitBuilder
    /\ boundType \in ArrayTypeInputs
    /\ littleEndian \in BOOLEAN
    /\ offsetNow \in BaseInputs
    /\ bindOffset = offsetNow
    /\ buffer = [p \in 1..(MaxBase + TypeSize(boundType)) |-> 100 + p]
    /\ bufferBefore = buffer
    /\ lastWrite = <<>>
    /\ getterMap = <<>>
    /\ cachedArray = <<>>
    /\ lastOp = Op("reactive", <<>>, FALSE, <<>>, <<>>)
    /\ opCount = 0

NextArray ==
    \/ \E path \in ArrayPaths(boundType) : \E method \in ArrayMethods :
          CallArray(path, method, SampleValue(TypeAt(boundType, path).element))
          /\ UNCHANGED <<declared, frozen, alias, fieldType>>
    \/ \E path \in Paths(boundType) \ {<<>>} :
          \E value \in ViewValueInputs(TypeAt(boundType, path)) :
              ViewSet(path, value) /\ UNCHANGED <<layoutVars, declared, cachedArray, frozen, alias, fieldType>>
    \/ \E path \in Paths(boundType) \ {<<>>} :
          ViewGet(path) /\ UNCHANGED <<layoutVars, declared, cachedArray, frozen, alias, fieldType>>

SpecArray == InitArray /\ [][NextArray]_vars

(***************************************************************************)
(* Descriptors that carry a byte order of their own (setLittleEndian):    *)
(* the struct getter and setter that pass                                 *)
(* littleEndian ?? property.type.littleEndian to each property            *)
(***************************************************************************)

\* type.setLittleEndian(littleEndian)
SetLittleEndian(T, endian) == [littleEndian |-> endian] @@ T

\* type.littleEndian
TypeLittleEndian(T) == IF "littleEndian" \in DOMAIN T THEN T.littleEndian ELSE Undefined

\* a plausible slip: the byte order of the property's type is not consulted
PropertyLittleEndian_Caller(endian, T) == endian

\* littleEndian ?? property.type.littleEndian
PropertyLittleEndian(endian, T) ==
    IF endian # Undefined THEN endian ELSE TypeLittleEndian(T)

\* DataView reads an undefined littleEndian argument as false
DataViewLittleEndian(endian) == endian = Some(TRUE)

RECURSIVE EndianGetter(_, _, _, _)
\* getter({ view, offset, littleEndian }), littleEndian being optional
EndianGetter(T, buf, offset, endian) ==
    IF T.kind = "struct"
    THEN LET list == PropertyList(T.recordList)
         IN  [key \in {list[i].key : i \in 1..Len(list)} |->
                 LET property == PropertyOf(T, key)
                 IN  EndianGetter(property.type, buf, offset + property.offset,
                                  PropertyLittleEndian(endian, property.type))]
    ELSE PrimitiveGetter(T, buf, offset, DataViewLittleEndian(endian))

RECURSIVE EndianSetter(_, _, _, _, _)
RECURSIVE EndianWriteProperties(_, _, _, _, _, _)
EndianWriteProperties(list, buf, offset, endian, value, i) ==
    IF i > Len(list)
    THEN buf
    ELSE EndianWriteProperties(list,
                               EndianSetter(list[i].type, buf, offset + list[i].offset,
                                            PropertyLittleEndian(endian, list[i].type),
                                            value[list[i].key]),
                               offset, endian, value, i + 1)

\* setter({ view, offset, littleEndian }, value), littleEndian being optional
EndianSetter(T, buf, offset, endian, value) ==
    IF T.kind = "struct"
    THEN EndianWriteProperties(PropertyList(T.recordList), buf, offset, endian, value, 1)
    ELSE PrimitiveSetter(T, buf, offset, DataViewLittleEndian(endian), value)

\* the littleEndian argument, and the littleEndian of a descriptor
EndianInputs == {Undefined, Some(TRUE), Some(FALSE)}

\* a struct of one UINT_16, which may carry a byte order itself
EndianInner(inner, field) ==
    SetLittleEndian(DefineStruct(<<Entry("v", SetLittleEndian(UINT_16, field))>>), inner)

\* structs of a UINT_16 and a nested struct, each descriptor with or without
\* a byte order of its own
EndianTypeInputs ==
    {DefineStruct(<<Entry("a", SetLittleEndian(UINT_16, a)),
                    Entry("s", EndianInner(s, v))>>) :
        a \in EndianInputs, s \in EndianInputs, v \in {Undefined, Some(TRUE)}}

EndianValueInputs == {[a |-> 258, s |-> [v |-> 772]], [a |-> 1, s |-> [v |-> 512]]}

\* set(view, type, 0, value, littleEndian)
EndianWrite(endian, value) ==
    /\ opCount < MaxOps
    /\ buffer' = EndianSetter(boundType, buffer, 0, endian, value)
    /\ bufferBefore' = buffer
    /\ littleEndian' = endian
    /\ lastOp' = Op("set", <<>>, FALSE, value, <<>>)
    /\ opCount' = opCount + 1
    /\ UNCHANGED <<boundType, lastWrite, offsetNow, bindOffset, getterMap>>

\* get(view, type, 0, littleEndian)
EndianRead(endian) ==
    /\ opCount < MaxOps
    /\ littleEndian' = endian
    /\ lastOp' = Op("get", <<>>, FALSE, <<>>, EndianGetter(boundType, buffer, 0, endian))
    /\ opCount' = opCount + 1
    /\ UNCHANGED <<boundType, buffer, bufferBefore, lastWrite, offsetNow, bindOffset, getterMap>>

InitEndian ==
    /\ InitBuilder
    /\ boundType \in EndianTypeInputs
    /\ littleEndian = Undefined
    /\ buffer = [p \in 1..TypeSize(boundType) |-> 100 + p]
    /\ bufferBefore = buffer
    /\ lastWrite = <<>>
    /\ offsetNow = 0
    /\ bindOffset = 0
    /\ getterMap = <<>>
    /\ cachedArray = <<>>
    /\ lastOp = Op("bind", <<>>, FALSE, <<>>, <<>>)
    /\ opCount = 0

NextEndian ==
    \/ \E endian \in EndianInputs : \E value \in EndianValueInputs :
          EndianWrite(endian, value) /\ UNCHANGED <<layoutVars, declared, cachedArray, frozen, alias, fieldType>>
    \/ \E endian \in EndianInputs :
          EndianRead(endian) /\ UNCHANGED <<layoutVars, declared, cachedArray, frozen, alias, fieldType>>

SpecEndian == InitEndian /\ [][NextEndian]_vars

(***************************************************************************)
(* ref(view, type, offset, littleEndian): a box whose value property      *)
(* reads and writes the buffer.  cachedGetter is the accessor memoized    *)
(* for the empty path.                                                    *)
(***************************************************************************)

RefTypeInputs == {UINT_16, String(2, Some(0)), PAIR}

\* a second value of T, which differs from SampleValue(T)
RECURSIVE OtherValue(_)
OtherValue(T) ==
    CASE T.kind = "primitive" -> IF PrimitiveSize(T) = 1 THEN 7 ELSE 772
      [] T.kind = "string" -> <<66>>
      [] T.kind = "array" -> [i \in 1..T.length |-> OtherValue(T.element)]
      [] T.kind = "struct" -> [key \in MemberKeys(T) |-> OtherValue(MemberType(T, key))]

MaxRefOps == 4

\* a plausible slip: the raw value is read where the box was bound
RawOffset_Bound == bindOffset

\* [OperationRawSymbol](): offset: baseOffset()
RawOffset == BaseOffset

\* cacheGetter: (getter) => cachedGetter = getter, with localOffset: 0
CacheGetter(map) == IF <<>> \in DOMAIN map THEN map ELSE map @@ (<<>> :> [localOffset |-> 0])

\* reading r.value.k1...kn; the empty path reads r.value itself
RefGet(path) ==
    /\ opCount < MaxRefOps
    /\ LET map == Resolve(CacheGetter(getterMap), path, 1)
       IN  /\ getterMap' = map
           /\ lastOp' = Op("get", path, path \in DOMAIN getterMap, <<>>, Accessor(map, path))
    /\ opCount' = opCount + 1
    /\ UNCHANGED <<offsetNow, bindOffset, ioVars>>

\* r.value = value
RefSet(value) ==
    /\ opCount < MaxRefOps
    /\ buffer' = Setter(boundType, buffer, BaseOffset, littleEndian, value)
    /\ bufferBefore' = buffer
    /\ lastWrite' = <<[offset |-> BaseOffset, value |-> value]>>
    /\ lastOp' = Op("set", <<>>, <<>> \in DOMAIN getterMap, value, <<>>)
    /\ opCount' = opCount + 1
    /\ UNCHANGED <<offsetNow, bindOffset, getterMap, boundType, littleEndian>>

\* toRaw(r)
RefToRaw ==
    /\ opCount < MaxRefOps
    /\ lastOp' = Op("toRaw", <<>>, <<>> \in DOMAIN getterMap, <<>>,
                    [value |-> Getter(boundType, buffer, RawOffset, littleEndian)])
    /\ opCount' = opCount + 1
    /\ UNCHANGED <<offsetNow, bindOffset, getterMap, ioVars>>

\* another writer: set(view, type, offset, value, littleEndian)
RefOtherWrite(offset, value) ==
    /\ opCount < MaxRefOps
    /\ buffer' = Setter(boundType, buffer, offset, littleEndian, value)
    /\ bufferBefore' = buffer
    /\ lastOp' = Op("write", <<>>, FALSE, value, offset)
    /\ opCount' = opCount + 1
    /\ UNCHANGED <<offsetNow, bindOffset, getterMap, boundType, littleEndian, lastWrite>>

\* the offset resolver starts to return another offset
RefRelocate(offset) ==
    /\ opCount < MaxRefOps
    /\ offset # offsetNow
    /\ offsetNow' = offset
    /\ lastOp' = Op("relocate", <<>>, FALSE, offset, <<>>)
    /\ opCount' = opCount + 1
    /\ UNCHANGED <<bindOffset, getterMap, ioVars>>

\* ref(view, type, offset, littleEndian) over bytes that differ from one another
InitRef ==
    /\ InitBuilder
    /\ boundType \in RefTypeInputs
    /\ littleEndian \in BOOLEAN
    /\ offsetNow \in BaseInputs
    /\ bindOffset = offsetNow
    /\ buffer = [p \in 1..(MaxBase + TypeSize(boundType)) |-> 100 + p]
    /\ bufferBefore = buffer
    /\ lastWrite = <<>>
    /\ getterMap = <<>>
    /\ cachedArray = <<>>
    /\ lastOp = Op("ref", <<>>, FALSE, <<>>, <<>>)
    /\ opCount = 0

NextRef ==
    \/ \E path \in Paths(boundType) : RefGet(path) /\ UNCHANGED <<layoutVars, declared, cachedArray, frozen, alias, fieldType>>
    \/ RefSet(SampleValue(boundType)) /\ UNCHANGED <<layoutVars, declared, cachedArray, frozen, alias, fieldType>>
    \/ RefToRaw /\ UNCHANGED <<layoutVars, declared, cachedArray, frozen, alias, fieldType>>
    \/ \E offset \in BaseInputs :
          RefOtherWrite(offset, OtherValue(boundType))
          /\ UNCHANGED <<layoutVars, declared, cachedArray, frozen, alias, fieldType>>
    \/ \E offset \in BaseInputs :
          RefRelocate(offset) /\ UNCHANGED <<layoutVars, declared, cachedArray, frozen, alias, fieldType>>

SpecRef == InitRef /\ [][NextRef]_vars

(***************************************************************************)
(* freeze(): the builder, the descriptor freeze() returns, and calls on   *)
(* either                                                                 *)
(***************************************************************************)

\* getProperties(): the records as an options object, each with its position as order
GetProperties(list) ==
    [i \in 1..Len(list) |->
        LET record == list[i]
        IN  Entry(record.key,
                  IF record.padding
                  THEN definePadding(Bytes(record.size),
                                     Options(Some(record.align), record.offsetStatic,
                                             Some(i - 1)))
                  ELSE defineProperty(record.type,
                                      Options(record.align, record.offsetStatic,
                                              Some(i - 1))))]

\* clone(): defineStruct(getProperties(), name).setSize(_size).setAlign(_align)
Clone(list, size, align) ==
    LET layout == UpdateLayout(OptionsToList(GetProperties(list)))
    IN  StructType(layout.recordList, layout.sizeCalc, layout.alignCalc, size, align)

\* a plausible slip: the frozen object is the clone itself, builder methods and all
FrozenMembers_Clone ==
    {"isTypeDefinition", "name", "size", "align", "keys", "properties", "propertyList",
     "recordList", "getter", "setter", "reactive", "clone",
     "setName", "setSize", "setAlign", "setProperties", "addProperty", "addPadding",
     "updateProperty", "updatePadding", "remove", "freeze"}

\* the members of the object literal that freeze() passes to Object.freeze
FrozenMembers ==
    {"isTypeDefinition", "name", "size", "align", "keys", "properties", "propertyList",
     "recordList", "getter", "setter", "reactive", "clone"}

\* the mutating operations of a builder
BuilderMethods ==
    {"setName", "setSize", "setAlign", "setProperties", "addProperty", "addPadding",
     "updateProperty", "updatePadding", "remove"}

FreezePropertyInputs == {<<UINT_8, NoOptions>>, <<FLOAT_32, NoOptions>>}

\* builder.freeze()
Freeze ==
    /\ opCount < MaxOps
    /\ frozen' = <<Clone(recordList, sizeOverride, Undefined)>>
    /\ threw' = FALSE
    /\ lastOp' = Op("freeze", <<>>, FALSE, <<>>, <<>>)
    /\ opCount' = opCount + 1
    /\ UNCHANGED <<recordList, sizeCalc, alignCalc, sizeOverride>>

\* frozenDescriptor[method](...): a TypeError unless the descriptor has the member
FrozenCall(method) ==
    /\ opCount < MaxOps
    /\ frozen # <<>>
    /\ threw' = (method \notin FrozenMembers)
    /\ lastOp' = Op("frozen", <<>>, FALSE, method, <<>>)
    /\ opCount' = opCount + 1
    /\ UNCHANGED <<recordList, sizeCalc, alignCalc, sizeOverride, frozen, alias, fieldType>>

\* a mutating call on the builder
BuilderCall(method) ==
    /\ opCount < MaxOps
    /\ lastOp' = Op("builder", <<>>, FALSE, method, <<>>)
    /\ opCount' = opCount + 1
    /\ UNCHANGED frozen

FreezeUnchanged ==
    UNCHANGED <<ioVars, offsetNow, bindOffset, getterMap, declared, cachedArray, alias, fieldType>>

NextFreeze ==
    \/ \E key \in Keys, input \in FreezePropertyInputs :
          AddProperty(key, input[1], input[2]) /\ BuilderCall("addProperty") /\ FreezeUnchanged
    \/ \E key \in Keys, input \in PaddingInputs :
          AddPadding(key, input[1], input[2]) /\ BuilderCall("addPadding") /\ FreezeUnchanged
    \/ \E key \in Keys, input \in FreezePropertyInputs :
          UpdateProperty(key, input[1], input[2]) /\ BuilderCall("updateProperty")
          /\ FreezeUnchanged
    \/ \E key \in Keys : Remove(key) /\ BuilderCall("remove") /\ FreezeUnchanged
    \/ \E size \in SizeInputs : SetSize(size) /\ BuilderCall("setSize") /\ FreezeUnchanged
    \/ Freeze /\ FreezeUnchanged
    \/ \E method \in BuilderMethods : FrozenCall(method) /\ FreezeUnchanged

\* defineStruct() and defineStruct(options)
InitFreeze ==
    /\ \E options \in OptionsInputs \cup {<<>>} :
           LET layout == UpdateLayout(OptionsToList(options))
           IN  /\ recordList = layout.recordList
               /\ sizeCalc = layout.sizeCalc
               /\ alignCalc = layout.alignCalc
    /\ sizeOverride = Undefined
    /\ threw = FALSE
    /\ declared = <<>>
    /\ frozen = <<>>
    /\ alias = <<>>
    /\ fieldType = <<>>
    /\ NoBuffer
    /\ offsetNow = 0
    /\ bindOffset = 0
    /\ getterMap = <<>>
    /\ cachedArray = <<>>
    /\ lastOp = Op("defineStruct", <<>>, FALSE, <<>>, <<>>)
    /\ opCount = 0

SpecFreeze == InitFreeze /\ [][NextFreeze]_vars

(***************************************************************************)
(* freeze() and clone() of builders whose keys are strings, integer-like  *)
(* strings and symbols                                                    *)
(***************************************************************************)

CloneKeys == {"a", "1"} \cup SymbolKeys

NextClone ==
    \/ \E key \in CloneKeys, input \in FreezePropertyInputs :
          AddProperty(key, input[1], input[2]) /\ BuilderCall("addProperty") /\ FreezeUnchanged
    \/ \E key \in CloneKeys, input \in PaddingInputs :
          AddPadding(key, input[1], input[2]) /\ BuilderCall("addPadding") /\ FreezeUnchanged
    \/ \E key \in CloneKeys : Remove(key) /\ BuilderCall("remove") /\ FreezeUnchanged
    \/ \E size \in SizeInputs : SetSize(size) /\ BuilderCall("setSize") /\ FreezeUnchanged
    \/ Freeze /\ FreezeUnchanged

InitClone ==
    /\ InitBuilder
    /\ NoBuffer
    /\ offsetNow = 0
    /\ bindOffset = 0
    /\ getterMap = <<>>
    /\ cachedArray = <<>>
    /\ lastOp = Op("defineStruct", <<>>, FALSE, <<>>, <<>>)
    /\ opCount = 0

SpecClone == InitClone /\ [][NextClone]_vars

(***************************************************************************)
(* The predefined integer types of types.ts with get / set / getArray /    *)
(* setArray of the core.  A JavaScript integer (number or bigint) is kept  *)
(* in base 256, as the sign and the digits of its magnitude, least         *)
(* significant first, so that the 32 and 64 bit types keep their width.    *)
(***************************************************************************)

INT_8 == Primitive("INT_8", Some(1))

INT_16 == Primitive("INT_16", Some(2))

INT_32 == Primitive("INT_32", Some(4))

INT_64 == Primitive("INT_64", Some(8))

UINT_64 == Primitive("UINT_64", Some(8))

IntegerTypes == {INT_8, INT_16, INT_32, INT, INT_64, UINT_8, UINT_16, UINT_32, UINT_64}

\* the types whose accessors are DataView.getInt8 / getInt16 / getInt32 / getBigInt64
IsSigned(T) == T.name \in {"INT_8", "INT_16", "INT_32", "INT", "INT_64"}

Number(negative, digits) == [negative |-> negative, digits |-> digits]

\* 2^(8 n) - m for the n digits of m: every digit complemented, plus one
TwosComplement(digits) ==
    LET n == Len(digits)
        carry[i \in 0..n] ==
            IF i = 0
            THEN 1
            ELSE IF (255 - digits[i]) + carry[i - 1] > 255 THEN 1 ELSE 0
    IN  [i \in 1..n |-> ((255 - digits[i]) + carry[i - 1]) % 256]

\* the magnitude modulo 2^(8 size)
LowDigits(digits, size) ==
    [i \in 1..size |-> IF i <= Len(digits) THEN digits[i] ELSE 0]

\* DataView.setInt8 ... setBigUint64: the value modulo 2^(8 size) in two's
\* complement, the byte of weight 256^i at the place the byte order gives it
SetInteger(buf, offset, size, le, value) ==
    LET magnitude == LowDigits(value.digits, size)
        stored == IF value.negative THEN TwosComplement(magnitude) ELSE magnitude
    IN  [p \in 1..Len(buf) |->
            IF \E i \in 0..(size - 1) : ByteAt(offset, size, le, i) + 1 = p
            THEN stored[(CHOOSE i \in 0..(size - 1) : ByteAt(offset, size, le, i) + 1 = p) + 1]
            ELSE buf[p]]

\* DataView.getInt8 ... getBigUint64: a signed read whose top bit is set is
\* the negative number of the complemented magnitude
GetInteger(buf, offset, size, le, signed) ==
    LET stored == [i \in 1..size |-> buf[ByteAt(offset, size, le, i - 1) + 1]]
    IN  IF signed /\ stored[size] >= 128
        THEN Number(TRUE, TwosComplement(stored))
        ELSE Number(FALSE, stored)

IntegerGetter(T, buf, offset, le) ==
    GetInteger(buf, offset, PrimitiveSize(T), le, IsSigned(T))

IntegerSetter(T, buf, offset, le, value) ==
    SetInteger(buf, offset, PrimitiveSize(T), le, value)

\* a plausible slip: the elements one byte apart
ElementOffset_Packed(offset, size, i) == offset + i

\* offset + size * i
ElementOffset(offset, size, i) == offset + size * i

\* getArray(view, type, offset, length, littleEndian)
getArray(T, buf, offset, length, le) ==
    [i \in 1..length |->
        IntegerGetter(T, buf, ElementOffset(offset, PrimitiveSize(T), i - 1), le)]

\* setArray(view, type, offset, array, littleEndian)
setArray(T, buf, offset, array, le) ==
    LET written[i \in 0..Len(array)] ==
            IF i = 0
            THEN buf
            ELSE IntegerSetter(T, written[i - 1],
                               ElementOffset(offset, PrimitiveSize(T), i - 1), le, array[i])
    IN  written[Len(array)]

\* the numbers of size digits: d in the lowest digit, d in the highest digit,
\* the digits 1, 2, ..., the largest signed number
LowDigit(size, d) == [i \in 1..size |-> IF i = 1 THEN d ELSE 0]

TopDigit(size, d) == [i \in 1..size |-> IF i = size THEN d ELSE 0]

CountingDigits(size) == [i \in 1..size |-> i]

MaxSignedDigits(size) == [i \in 1..size |-> IF i = size THEN 127 ELSE 255]

\* v is in the range of T: 0 .. 2^(8 size) - 1, or -2^(8 size - 1) .. 2^(8 size - 1) - 1
InRange(T, v) ==
    LET size == PrimitiveSize(T)
    IN  /\ Len(v.digits) = size
        /\ \A i \in 1..size : v.digits[i] \in 0..255
        /\ v.negative => (IsSigned(T) /\ v.digits # LowDigit(size, 0))
        /\ (IsSigned(T) /\ ~v.negative) => v.digits[size] < 128
        /\ (IsSigned(T) /\ v.negative) =>
              (v.digits[size] < 128 \/ v.digits = TopDigit(size, 128))

\* values of the range of T: 0, 1, the largest, the smallest, -1 and numbers
\* whose digits all differ
IntegerValueInputs(T) ==
    LET size == PrimitiveSize(T)
    IN  IF IsSigned(T)
        THEN {Number(FALSE, LowDigit(size, 0)), Number(FALSE, LowDigit(size, 1)),
              Number(TRUE, LowDigit(size, 1)), Number(FALSE, MaxSignedDigits(size)),
              Number(TRUE, TopDigit(size, 128)), Number(FALSE, CountingDigits(size)),
              Number(TRUE, CountingDigits(size))}
        ELSE {Number(FALSE, LowDigit(size, 0)), Number(FALSE, LowDigit(size, 1)),
              Number(FALSE, [i \in 1..size |-> 255]), Number(FALSE, TopDigit(size, 128)),
              Number(FALSE, CountingDigits(size))}

\* the arrays passed to setArray
IntegerArrayInputs(T) ==
    LET size == PrimitiveSize(T)
        counting == Number(FALSE, CountingDigits(size))
        low == IF IsSigned(T) THEN Number(TRUE, LowDigit(size, 1))
                              ELSE Number(FALSE, [i \in 1..size |-> 255])
        top == IF IsSigned(T) THEN Number(TRUE, TopDigit(size, 128))
                              ELSE Number(FALSE, TopDigit(size, 128))
    IN  {<<>>, <<counting>>, <<low, counting>>, <<counting, top>>, <<top, low>>}

MaxIntOps == 2

\* set(view, type, offset, value, littleEndian), then get(view, type, offset, littleEndian)
IntegerSet(offset, value) ==
    /\ opCount < MaxIntOps
    /\ buffer' = IntegerSetter(boundType, buffer, offset, littleEndian, value)
    /\ bufferBefore' = buffer
    /\ lastWrite' = <<[offset |-> offset, value |-> value]>>
    /\ lastOp' = Op("set", <<>>, FALSE, value,
                    IntegerGetter(boundType, buffer', offset, littleEndian))
    /\ opCount' = opCount + 1
    /\ UNCHANGED <<boundType, littleEndian, offsetNow, bindOffset, getterMap>>

\* setArray(view, type, offset, array, littleEndian), then
\* getArray(view, type, offset, array.length, littleEndian)
IntegerSetArray(offset, array) ==
    /\ opCount < MaxIntOps
    /\ buffer' = setArray(boundType, buffer, offset, array, littleEndian)
    /\ bufferBefore' = buffer
    /\ lastWrite' = <<[offset |-> offset, value |-> array]>>
    /\ lastOp' = Op("setArray", <<>>, FALSE, array,
                    getArray(boundType, buffer', offset, Len(array), littleEndian))
    /\ opCount' = opCount + 1
    /\ UNCHANGED <<boundType, littleEndian, offsetNow, bindOffset, getterMap>>

\* a DataView long enough for two elements at the furthest offset
InitInteger ==
    /\ InitBuilder
    /\ boundType \in IntegerTypes
    /\ littleEndian \in BOOLEAN
    /\ buffer = [p \in 1..(2 * PrimitiveSize(boundType) + MaxWriteOffset) |-> 100 + p]
    /\ bufferBefore = buffer
    /\ lastWrite = <<>>
    /\ offsetNow = 0
    /\ bindOffset = 0
    /\ getterMap = <<>>
    /\ cachedArray = <<>>
    /\ lastOp = Op("DataView", <<>>, FALSE, <<>>, <<>>)
    /\ opCount = 0

NextInteger ==
    \/ \E offset \in IoOffsetInputs, value \in IntegerValueInputs(boundType) :
          IntegerSet(offset, value) /\ UNCHANGED <<layoutVars, declared, cachedArray, frozen, alias, fieldType>>
    \/ \E offset \in IoOffsetInputs, array \in IntegerArrayInputs(boundType) :
          IntegerSetArray(offset, array) /\ UNCHANGED <<layoutVars, declared, cachedArray, frozen, alias, fieldType>>

SpecInteger == InitInteger /\ [][NextInteger]_vars

(***************************************************************************)
(* Two reactive views of one DataView whose regions overlap, and plain    *)
(* set() calls on the same bytes.  View 1 is kept in getterMap and         *)
(* offsetNow, view 2 in alias; a memoized accessor keeps its context and   *)
(* what it returned when it was made.                                      *)
(***************************************************************************)

\* the state of view v
AliasView(v) ==
    IF v = 1 THEN [offset |-> offsetNow, getterMap |-> getterMap] ELSE alias

\* a plausible slip: the memoized accessor returns what the first read returned
Memoized_First(context, value) == context.first

\* what a memoized accessor returns: the value it reads when it is called
Memoized(context, value) == value

\* the get traps along a path of one view, as Resolve, the context keeping
\* also what the accessor returned when it was made
RECURSIVE AliasResolve(_, _, _, _)
AliasResolve(map, base, path, n) ==
    IF n > Len(path)
    THEN map
    ELSE LET prefix == SubSeq(path, 1, n)
             parent == SubSeq(path, 1, n - 1)
             T == TypeAt(boundType, prefix)
             localOffset == ChildLocalOffset(LocalOffsetOf(map, parent),
                                             MemberOffset(TypeAt(boundType, parent), path[n]))
             context == [localOffset |-> localOffset,
                         first |-> IF IsComposite(T)
                                   THEN Proxy(prefix)
                                   ELSE Plain(Getter(T, buffer, localOffset + base, littleEndian))]
         IN  AliasResolve(IF prefix \in DOMAIN map THEN map ELSE map @@ (prefix :> context),
                          base, path, n + 1)

\* what the accessor of a path of a view returns
AliasAccessor(map, base, path) ==
    LET T == TypeAt(boundType, path)
    IN  IF IsComposite(T)
        THEN Proxy(path)
        ELSE Memoized(map[path],
                      Plain(Getter(T, buffer, map[path].localOffset + base, littleEndian)))

\* where the bytes of a path of a view are in the DataView
RECURSIVE PathOffset(_, _)
PathOffset(T, path) ==
    IF path = <<>>
    THEN 0
    ELSE MemberOffset(T, Head(path)) + PathOffset(MemberType(T, Head(path)), Tail(path))

\* the offsets at which the second view is bound: on the first view, or one
\* element further
AliasOffsetInputs(T) ==
    {0} \cup (IF T.kind = "array" THEN {TypeSize(T.element)} ELSE {})

MaxAliasOps == 3

\* reading view.k1...kn through view v
AliasGet(v, path) ==
    /\ opCount < MaxAliasOps
    /\ LET view == AliasView(v)
           map == AliasResolve(view.getterMap, view.offset, path, 1)
       IN  /\ IF v = 1
              THEN getterMap' = map /\ alias' = alias
              ELSE alias' = [alias EXCEPT !.getterMap = map] /\ getterMap' = getterMap
           /\ lastOp' = Op("get", path, path \in DOMAIN view.getterMap,
                           [view |-> v, offset |-> view.offset + PathOffset(boundType, path)],
                           AliasAccessor(map, view.offset, path))
    /\ opCount' = opCount + 1
    /\ UNCHANGED <<offsetNow, bindOffset, ioVars>>

\* view.k1...kn = value through view v
AliasSet(v, path, value) ==
    /\ opCount < MaxAliasOps
    /\ LET view == AliasView(v)
           parent == SubSeq(path, 1, Len(path) - 1)
           map == AliasResolve(view.getterMap, view.offset, parent, 1)
           offset == SetTrapOffset(view.offset, LocalOffsetOf(map, parent),
                                   MemberOffset(TypeAt(boundType, parent), path[Len(path)]))
       IN  /\ IF v = 1
              THEN getterMap' = map /\ alias' = alias
              ELSE alias' = [alias EXCEPT !.getterMap = map] /\ getterMap' = getterMap
           /\ buffer' = Setter(TypeAt(boundType, path), buffer, offset, littleEndian, value)
           /\ bufferBefore' = buffer
           /\ lastWrite' = <<[view |-> v, offset |-> offset, value |-> value,
                              type |-> TypeAt(boundType, path)]>>
           /\ lastOp' = Op("set", path, path \in DOMAIN view.getterMap,
                           [view |-> v, offset |-> offset], <<>>)
    /\ opCount' = opCount + 1
    /\ UNCHANGED <<offsetNow, bindOffset, boundType, littleEndian>>

\* set(view, type, offset, value, littleEndian) on the bytes of a field of view 1
AliasPlainSet(path, value) ==
    /\ opCount < MaxAliasOps
    /\ LET T == TypeAt(boundType, path)
           offset == offsetNow + PathOffset(boundType, path)
       IN  /\ buffer' = Setter(T, buffer, offset, littleEndian, value)
           /\ bufferBefore' = buffer
           /\ lastWrite' = <<[view |-> 0, offset |-> offset, value |-> value, type |-> T]>>
           /\ lastOp' = Op("set", path, FALSE, [view |-> 0, offset |-> offset], <<>>)
    /\ opCount' = opCount + 1
    /\ UNCHANGED <<offsetNow, bindOffset, boundType, littleEndian, getterMap, alias, fieldType>>

\* the value a writer writes: the two views write values that differ, and
\* neither is in the buffer at first; a plain call writes what view 2 writes
AliasValue(v, T) == IF v = 1 THEN SampleValue(T) ELSE OtherValue(T)

\* an array of structs, so that a view bound one element further shares the
\* bytes of an element under another index
AliasTypeInputs == {TABLE}

\* the paths to the values that are not views
AliasLeafPaths == {path \in Paths(boundType) : ~IsComposite(TypeAt(boundType, path))}

\* reactive(view, type, 0, littleEndian) and reactive(view, type, offset, littleEndian)
InitAlias ==
    /\ recordList = <<>>
    /\ sizeCalc = 0
    /\ alignCalc = 1
    /\ sizeOverride = Undefined
    /\ threw = FALSE
    /\ declared = <<>>
    /\ frozen = <<>>
    /\ boundType \in AliasTypeInputs
    /\ littleEndian \in BOOLEAN
    /\ offsetNow = 0
    /\ bindOffset = 0
    /\ getterMap = <<>>
    /\ alias \in {[offset |-> offset, getterMap |-> <<>>] : offset \in AliasOffsetInputs(boundType)}
    /\ fieldType = <<>>
    /\ buffer = [p \in 1..(2 * TypeSize(boundType)) |-> 100 + p]
    /\ bufferBefore = buffer
    /\ lastWrite = <<>>
    /\ cachedArray = <<>>
    /\ lastOp = Op("reactive", <<>>, FALSE, <<>>, <<>>)
    /\ opCount = 0

NextAlias ==
    \/ \E v \in {1, 2}, path \in Paths(boundType) \ {<<>>} :
          AliasGet(v, path) /\ UNCHANGED <<layoutVars, declared, cachedArray, frozen, fieldType>>
    \/ \E v \in {1, 2}, path \in Paths(boundType) \ {<<>>} :
          AliasSet(v, path, AliasValue(v, TypeAt(boundType, path)))
          /\ UNCHANGED <<layoutVars, declared, cachedArray, frozen, fieldType>>
    \/ \E path \in AliasLeafPaths :
          AliasPlainSet(path, AliasValue(0, TypeAt(boundType, path)))
          /\ UNCHANGED <<layoutVars, declared, cachedArray, frozen, fieldType>>

SpecAlias == InitAlias /\ [][NextAlias]_vars

(***************************************************************************)
(* definedStruct of core.ts: fields whose type has no fixed size.  The     *)
(* properties are kept in recordList, context.size in sizeCalc (a number   *)
(* or undefined), context.maxAlign in alignCalc.  A property names its     *)
(* type; the type named by fieldType's name is the descriptor fieldType,   *)
(* which the caller may still change.                                      *)
(***************************************************************************)

\* definedType(name).setSize(size)
DefinedType(name, size) == [name |-> name, size |-> size, align |-> Undefined]

DefinedTypes == {DefinedType("uint_8", Some(1)), DefinedType("int_32", Some(4))}

\* property.type
DefinedTypeOf(type, property) ==
    IF property.type = type.name
    THEN type
    ELSE CHOOSE T \in DefinedTypes : T.name = property.type

\* typeof property.type.size === "number"
IsStaticSize(type, property) == IsNumber(DefinedTypeOf(type, property).size)

\* a plausible slip: an offset cached by an earlier pass is not used
CachedOffset_None(property) == Undefined

\* property.offsetCache
CachedOffset(property) == property.offsetCache

\* calculateOffset(property, offset, cached): the offset and the property,
\* whose offsetCache the call may set
calculateOffset(type, property, offset, cached) ==
    IF IsNumber(property.offset)
    THEN [offset |-> property.offset[1], property |-> property]
    ELSE IF IsNumber(CachedOffset(property))
    THEN [offset |-> CachedOffset(property)[1], property |-> property]
    ELSE LET T == DefinedTypeOf(type, property)
             align == Max(Coalesce(property.align, Coalesce(T.align, Coalesce(T.size, 1))), 1)
             alignedOffset == offset + AlignPadding(offset, align)
         IN  [offset |-> alignedOffset,
              property |-> IF cached
                           THEN [property EXCEPT !.offsetCache = Some(alignedOffset)]
                           ELSE property]

\* the loop of calculateLayout; currentOffset is <<>> once a dynamic size was met
RECURSIVE CalculateLayoutLoop(_, _, _, _)
CalculateLayoutLoop(type, list, i, state) ==
    IF i > Len(list)
    THEN state
    ELSE LET cleared == [list[i] EXCEPT !.offsetCache = Undefined]
             T == DefinedTypeOf(type, cleared)
             align == Max(Coalesce(cleared.align, Coalesce(T.align, Coalesce(T.size, 1))), 1)
             maxAlign == Max(state.maxAlign, align)
         IN  IF ~IsNumber(state.currentOffset)
             THEN CalculateLayoutLoop(type, list, i + 1,
                      [properties |-> Append(state.properties, cleared),
                       maxAlign |-> maxAlign,
                       currentOffset |-> Undefined])
             ELSE LET placed == calculateOffset(type, cleared, state.currentOffset[1], TRUE)
                  IN  CalculateLayoutLoop(type, list, i + 1,
                          [properties |-> Append(state.properties, placed.property),
                           maxAlign |-> maxAlign,
                           currentOffset |-> IF IsNumber(T.size)
                                             THEN Some(placed.offset + T.size[1])
                                             ELSE Undefined])

\* calculateLayout
calculateLayout(type, list) ==
    LET end == CalculateLayoutLoop(type, list, 1,
                   [properties |-> <<>>, maxAlign |-> 1, currentOffset |-> Some(0)])
    IN  [properties |-> end.properties,
         maxAlign |-> end.maxAlign,
         size |-> IF IsNumber(end.currentOffset)
                  THEN Some(end.currentOffset[1]
                            + EndPadding(end.currentOffset[1], end.maxAlign))
                  ELSE Undefined]

\* the loop of the struct getter and of the struct setter: reports[i] is the
\* size the reader or writer of property i reports, <<>> when it reports
\* none; the walk ends at the throw
RECURSIVE StructWalk(_, _, _, _, _)
StructWalk(type, list, reports, i, state) ==
    IF i > Len(list) \/ state.threw
    THEN state
    ELSE LET placed == calculateOffset(type, list[i], state.currentOffset, state.staticSize)
             T == DefinedTypeOf(type, list[i])
             next == [state EXCEPT !.properties = Append(@, placed.property),
                                   !.placed = Append(@, placed.offset)]
         IN  IF IsNumber(T.size)
             THEN StructWalk(type, list, reports, i + 1,
                      [next EXCEPT !.currentOffset = placed.offset + T.size[1]])
             ELSE IF IsNumber(reports[i])
             THEN StructWalk(type, list, reports, i + 1,
                      [next EXCEPT !.staticSize = FALSE,
                                   !.currentOffset = placed.offset + reports[i][1]])
             ELSE [next EXCEPT !.staticSize = FALSE, !.threw = TRUE]

\* the properties with the caches the walk left, the offsets at which the
\* readers or writers were called, and whether the walk threw
Walk(type, list, reports) ==
    LET end == StructWalk(type, list, reports, 1,
                   [properties |-> <<>>, placed |-> <<>>, currentOffset |-> 0,
                    staticSize |-> TRUE, threw |-> FALSE])
    IN  [properties |-> end.properties \o SubSeq(list, Len(end.properties) + 1, Len(list)),
         placed |-> end.placed,
         threw |-> end.threw]

MaxFields == 3

DefinedKeyNames == <<"a", "b", "c", "d">>

\* the key of the next field, or the key of a field there is
DefinedKeyInputs(list) ==
    {DefinedKeyNames[i] : i \in 1..Min(Len(list) + 1, MaxFields)}

\* the sizes a reader or writer reports, <<>> for none
ReportInputs == {Undefined, Some(1), Some(3)}

\* the reports of a walk: a reader or writer of a fixed size reports none
WalkReportInputs(type, list) ==
    {reports \in [1..Len(list) -> ReportInputs] :
        \A i \in 1..Len(list) : IsStaticSize(type, list[i]) => reports[i] = Undefined}

\* the sizes setSize gives the type that stays mutable
DefinedSizeInputs == {Undefined, Some(2)}

\* the explicit offset of addProperty
DefinedOffsetInputs == {Undefined, Some(6)}

\* addProperty(key, type, offset): pushProperty
DefinedAddProperty(key, type, offset) ==
    /\ IF \E i \in 1..Len(recordList) : recordList[i].key = key
       THEN /\ threw' = TRUE
            /\ UNCHANGED <<recordList, sizeCalc, alignCalc>>
       ELSE LET layout == calculateLayout(fieldType,
                              Append(recordList,
                                     [key |-> key, type |-> type, align |-> Undefined,
                                      offset |-> offset, offsetCache |-> Undefined]))
            IN  /\ recordList' = layout.properties
                /\ sizeCalc' = layout.size
                /\ alignCalc' = layout.maxAlign
                /\ threw' = FALSE
    /\ lastOp' = Op("addProperty", <<>>, FALSE, key, <<>>)
    /\ UNCHANGED <<sizeOverride, fieldType>>

\* setSize(size) on the descriptor that is the type of fields: context.size = size
DefinedSetSize(size) ==
    /\ size # fieldType.size
    /\ fieldType' = [fieldType EXCEPT !.size = size]
    /\ lastOp' = Op("setSize", <<>>, FALSE, size, <<>>)
    /\ UNCHANGED <<layoutVars>>

\* get(view, struct, offset) or set(view, struct, offset, value): one walk
DefinedAccess(op, reports) ==
    /\ Len(recordList) > 0
    /\ LET walk == Walk(fieldType, recordList, reports)
       IN  /\ recordList' = walk.properties
           /\ threw' = walk.threw
           /\ lastOp' = Op(op, <<>>, FALSE, reports, walk.placed)
    /\ UNCHANGED <<sizeCalc, alignCalc, sizeOverride, fieldType>>

\* definedStruct(), and a type that is dynamic or of two bytes
InitDefined ==
    /\ recordList = <<>>
    /\ sizeCalc = Some(0)
    /\ alignCalc = 1
    /\ sizeOverride = Undefined
    /\ threw = FALSE
    /\ declared = <<>>
    /\ frozen = <<>>
    /\ alias = <<>>
    /\ fieldType \in {DefinedType("c_string", size) : size \in DefinedSizeInputs}
    /\ NoBuffer
    /\ offsetNow = 0
    /\ bindOffset = 0
    /\ getterMap = <<>>
    /\ cachedArray = <<>>
    /\ lastOp = Op("definedStruct", <<>>, FALSE, <<>>, <<>>)
    /\ opCount = 0

DefinedUnchanged == UNCHANGED <<ioVars, offsetNow, bindOffset, getterMap, opCount, declared, cachedArray, frozen, alias>>

NextDefined ==
    \/ \E key \in DefinedKeyInputs(recordList), type \in {"c_string", "uint_8", "int_32"},
          offset \in DefinedOffsetInputs :
          DefinedAddProperty(key, type, offset) /\ DefinedUnchanged
    \/ \E size \in DefinedSizeInputs : DefinedSetSize(size) /\ DefinedUnchanged
    \/ \E op \in {"get", "set"}, reports \in WalkReportInputs(fieldType, recordList) :
          DefinedAccess(op, reports) /\ DefinedUnchanged

SpecDefined == InitDefined /\ [][NextDefined]_vars

(***************************************************************************)
(* The builder with explicit offsets that lie inside other fields, as in   *)
(* the union of the PE section header                                      *)
(***************************************************************************)

\* fields placed by the layout, at offset 0 and in the middle of a 4 byte field
OffsetPropertyInputs ==
    {<<UINT_8, NoOptions>>, <<UINT_32, NoOptions>>, <<UINT_32, Offset(0)>>,
     <<UINT_8, Offset(2)>>, <<UINT_16, Offset(5)>>}

NextOffset ==
    \/ \E key \in Keys, input \in OffsetPropertyInputs :
          AddProperty(key, input[1], input[2]) /\ UNCHANGED <<ioVars, viewVars, declared, cachedArray, frozen, alias, fieldType>>
    \/ \E key \in Keys, input \in OffsetPropertyInputs :
          UpdateProperty(key, input[1], input[2]) /\ UNCHANGED <<ioVars, viewVars, declared, cachedArray, frozen, alias, fieldType>>
    \/ \E key \in Keys : Remove(key) /\ UNCHANGED <<ioVars, viewVars, declared, cachedArray, frozen, alias, fieldType>>

SpecOffset == Init /\ [][NextOffset]_vars

(***************************************************************************)
(* Methods that keep the length, called between index assignments, reads  *)
(* and plain set() calls on the bytes of the array                        *)
(***************************************************************************)

\* methods that change the array they are called on, and keep its length
WholeArrayMethods == {"reverse", "fill"}

\* methods that leave the array they are called on as it is
NonMutatingMethods == {"slice", "indexOf", "includes"}

\* set(view, type, offset, value, littleEndian) on the bytes of the view
PlainSet(value) ==
    /\ opCount < MaxOps
    /\ buffer' = Setter(boundType, buffer, BaseOffset, littleEndian, value)
    /\ bufferBefore' = buffer
    /\ lastWrite' = <<[offset |-> BaseOffset, value |-> value]>>
    /\ lastOp' = Op("plain", <<>>, FALSE, value, <<>>)
    /\ opCount' = opCount + 1
    /\ UNCHANGED <<boundType, littleEndian, offsetNow, bindOffset, getterMap>>

NextWhole ==
    \/ \E path \in ArrayPaths(boundType) :
          \E method \in WholeArrayMethods \cup NonMutatingMethods :
              CallArray(path, method, SampleValue(TypeAt(boundType, path).element))
              /\ UNCHANGED <<declared, frozen, alias, fieldType>>
    \/ \E path \in Paths(boundType) \ {<<>>} :
          ViewSet(path, OtherValue(TypeAt(boundType, path)))
          /\ UNCHANGED <<layoutVars, declared, cachedArray, frozen, alias, fieldType>>
    \/ \E path \in Paths(boundType) \ {<<>>} :
          ViewGet(path) /\ UNCHANGED <<layoutVars, declared, cachedArray, frozen, alias, fieldType>>
    \/ PlainSet(OtherValue(boundType))
          /\ UNCHANGED <<layoutVars, declared, cachedArray, frozen, alias, fieldType>>

SpecWhole == InitArray /\ [][NextWhole]_vars

(***************************************************************************)
(* A view read and written between plain set() calls and changes of the   *)
(* base offset                                                             *)
(***************************************************************************)

NextMemo ==
    \/ NextView
    \/ PlainSet(OtherValue(boundType))
          /\ UNCHANGED <<layoutVars, declared, cachedArray, frozen, alias, fieldType>>

SpecMemo == InitView /\ [][NextMemo]_vars

(***************************************************************************)
(* Struct writes into a DataView that is longer than the struct: structs  *)
(* with padding records, alignment gaps, trailing padding, nested         *)
(* structs, and structs whose size was overridden by setSize              *)
(***************************************************************************)

\* setSize(size) of a finished descriptor: _size = size
setSize(T, size) == [T EXCEPT !.size = size]

\* a gap before b (alignment 4), a padding record, and one byte of end padding
GAPPED ==
    DefineStruct(<<Entry("a", UINT_8),
                   Entry("b", UINT_32),
                   Entry("pad", definePadding(Bytes(2), NoOptions)),
                   Entry("c", UINT_8)>>)

\* GAPPED as a field between two bytes
NESTED ==
    DefineStruct(<<Entry("head", UINT_8),
                   Entry("body", GAPPED),
                   Entry("tail", UINT_8)>>)

\* a nested struct of two bytes declared as one byte, followed by padding
SHORT_INNER == setSize(DefineStruct(<<Entry("x", UINT_16)>>), Some(1))

SHORT_OUTER ==
    DefineStruct(<<Entry("i", SHORT_INNER),
                   Entry("pad", definePadding(Bytes(1), NoOptions)),
                   Entry("z", UINT_8)>>)

\* a struct of four bytes declared as two
SHORT_TOP == setSize(DefineStruct(<<Entry("a", UINT_32)>>), Some(2))

FrameTypeInputs == {GAPPED, NESTED, PERSON, OVERLAY, SHORT_OUTER, SHORT_TOP}

\* the DataView is longer than the struct at the furthest write offset
FrameBufferLength(T) == TypeSize(T) * 2 + MaxWriteOffset + 1

FrameBindBuffer ==
    /\ boundType \in FrameTypeInputs
    /\ littleEndian \in BOOLEAN
    /\ buffer = [p \in 1..FrameBufferLength(boundType) |-> 100 + p]
    /\ bufferBefore = buffer
    /\ lastWrite = <<>>

InitFrame == InitBuilder /\ FrameBindBuffer /\ NoView

NextFrame ==
    \E offset \in IoOffsetInputs, value \in {SampleValue(boundType), OtherValue(boundType)} :
        Write(offset, value) /\ UNCHANGED <<layoutVars, viewVars, declared, cachedArray, frozen, alias, fieldType>>

SpecFrame == InitFrame /\ [][NextFrame]_vars

(***************************************************************************)
(* A builder whose fields are all auto-placed, one array descriptor that  *)
(* is used as a field type and stays mutable, and freeze(): a record      *)
(* holds a reference to its type, so a call on the array descriptor shows *)
(* in every record that has it as type, and no layout is computed         *)
(***************************************************************************)

\* the one array descriptor of these inputs is the shared one
IsShared(record) == ~record.padding /\ record.type.kind = "array"

\* the records as they read after the shared descriptor became T: record.type
\* is the same object, offset and the struct's size are what updateLayout left
Rebind(list, T) ==
    [i \in 1..Len(list) |-> IF IsShared(list[i]) THEN [list[i] EXCEPT !.type = T] ELSE list[i]]

\* a call on the shared array descriptor that leaves it as T
Mutate(method, T) ==
    /\ opCount < MaxOps
    /\ T # fieldType
    /\ fieldType' = T
    /\ recordList' = Rebind(recordList, T)
    /\ frozen' = IF frozen = <<>>
                 THEN <<>>
                 ELSE <<[frozen[1] EXCEPT !.recordList = Rebind(@, T)]>>
    /\ lastOp' = Op(method, <<>>, FALSE, T, <<>>)
    /\ opCount' = opCount + 1
    /\ UNCHANGED <<sizeCalc, alignCalc, sizeOverride, threw>>

\* setLength(length): _length = length ?? 0
setLength(length) == Mutate("setLength", [fieldType EXCEPT !.length = length])

\* setElement(element, fill): _element = element ?? UNKNOWN; _fill = fill
setElement(element) ==
    Mutate("setElement", [fieldType EXCEPT !.element = element, !.fill = Undefined])

\* setAlign(align): _align = align
setAlign(align) == Mutate("setAlign", [fieldType EXCEPT !.align = align])

SharedLengthInputs == {1, 2, 4}

SharedElementInputs == {UINT_8, UINT_16}

SharedAlignInputs == {Undefined, Some(4)}

\* the types of the fields added: two primitives and the shared descriptor
SharedPropertyInputs == {UINT_8, UINT_16, fieldType}

SharedUnchanged ==
    UNCHANGED <<ioVars, offsetNow, bindOffset, getterMap, declared, cachedArray, alias>>

NextShared ==
    \/ \E key \in Keys, type \in SharedPropertyInputs :
          AddProperty(key, type, NoOptions) /\ BuilderCall("addProperty")
          /\ UNCHANGED fieldType /\ SharedUnchanged
    \/ \E key \in Keys : Remove(key) /\ BuilderCall("remove")
          /\ UNCHANGED fieldType /\ SharedUnchanged
    \/ Freeze /\ UNCHANGED fieldType /\ SharedUnchanged
    \/ \E length \in SharedLengthInputs : setLength(length) /\ SharedUnchanged
    \/ \E element \in SharedElementInputs : setElement(element) /\ SharedUnchanged
    \/ \E align \in SharedAlignInputs : setAlign(align) /\ SharedUnchanged

\* defineStruct() and defineArray(UINT_8, 2)
InitShared ==
    /\ recordList = <<>>
    /\ sizeCalc = 0
    /\ alignCalc = 1
    /\ sizeOverride = Undefined
    /\ threw = FALSE
    /\ declared = <<>>
    /\ frozen = <<>>
    /\ alias = <<>>
    /\ fieldType = Array(UINT_8, 2, Undefined)
    /\ NoBuffer
    /\ offsetNow = 0
    /\ bindOffset = 0
    /\ getterMap = <<>>
    /\ cachedArray = <<>>
    /\ lastOp = Op("defineStruct", <<>>, FALSE, <<>>, <<>>)
    /\ opCount = 0

SpecShared == InitShared /\ [][NextShared]_vars

(***************************************************************************)
(* Layout claims                                                          *)
(***************************************************************************)

IsAutoPlaced(record) == record.offsetStatic = Undefined

AllAutoPlaced == \A i \in 1..Len(recordList) : IsAutoPlaced(recordList[i])

\* the record list with every computed offset blanked: what the caller declared
Declared(list) == [i \in 1..Len(list) |-> [list[i] EXCEPT !.offset = 0]]

Property(key, type, options) == propertyToRecord(key, defineProperty(type, options))

Padding(key, typeOrSize, options) == paddingToRecord(key, definePadding(typeOrSize, options))

\* the record of a key that is present
RecordOf(key) == recordList[FindIndex(recordList, key)]

\* C1: after every builder operation, every record without an explicit offset
\* lies at a multiple of its effective alignment.
C1_AutoPlacedAligned ==
    \A i \in 1..Len(recordList) :
        IsAutoPlaced(recordList[i]) =>
            recordList[i].offset % RecordAlign(recordList[i]) = 0

\* an auto-placed record that had to be moved past the end of its predecessor
C1_Witness ==
    \E i \in 2..Len(recordList) :
        /\ IsAutoPlaced(recordList[i])
        /\ RecordAlign(recordList[i]) > 1
        /\ recordList[i].offset > recordList[i - 1].offset + RecordSize(recordList[i - 1])

RECURSIVE SumSizes(_)
SumSizes(list) ==
    IF list = <<>> THEN 0 ELSE RecordSize(Head(list)) + SumSizes(Tail(list))

\* the largest effective alignment among the records, 1 for an empty struct
LargestAlign(list) ==
    IF list = <<>>
    THEN 1
    ELSE CHOOSE a \in {RecordAlign(list[i]) : i \in 1..Len(list)} :
            \A i \in 1..Len(list) : RecordAlign(list[i]) <= a

\* C2: all fields auto-placed and no setSize override: the size is a multiple
\* of the largest effective alignment and at least the sum of the record sizes.
C2_SizeMultipleOfMaxAlign ==
    (AllAutoPlaced /\ sizeOverride = Undefined) =>
        /\ StructSize(typeDefinition) % LargestAlign(recordList) = 0
        /\ StructSize(typeDefinition) >= SumSizes(recordList)

\* an auto-placed struct that ends with trailing padding
C2_Witness ==
    /\ AllAutoPlaced
    /\ sizeOverride = Undefined
    /\ Len(recordList) >= 2
    /\ LET last == recordList[Len(recordList)]
       IN  StructSize(typeDefinition) > last.offset + RecordSize(last)

\* C3: {a: 1-byte unsigned, b: 4-byte float} lays out as a at 0, b at 4, size 8;
\* with align = 1 on both fields b is at 1 and the size is 5.
C3_ScenarioA ==
    /\ (/\ Declared(recordList) = <<Property("a", UINT_8, NoOptions),
                                    Property("b", FLOAT_32, NoOptions)>>
        /\ sizeOverride = Undefined)
       => /\ RecordOf("a").offset = 0
          /\ RecordOf("b").offset = 4
          /\ StructSize(typeDefinition) = 8
    /\ (/\ Declared(recordList) = <<Property("a", UINT_8, Align(1)),
                                    Property("b", FLOAT_32, Align(1))>>
        /\ sizeOverride = Undefined)
       => /\ RecordOf("a").offset = 0
          /\ RecordOf("b").offset = 1
          /\ StructSize(typeDefinition) = 5

\* the struct of scenario A has been built
C3_Witness ==
    /\ Declared(recordList) = <<Property("a", UINT_8, NoOptions),
                                Property("b", FLOAT_32, NoOptions)>>
    /\ sizeOverride = Undefined

\* C4: with no setSize override the size covers every record, auto-placed or
\* manually placed; the padded and the manual example both have size 40.
C4_SizeCoversEveryRecord ==
    sizeOverride = Undefined =>
        /\ \A i \in 1..Len(recordList) :
              recordList[i].offset + RecordSize(recordList[i]) <= StructSize(typeDefinition)
        /\ Declared(recordList) = <<Padding("p", Bytes(32), NoOptions),
                                    Property("a", UINT_8, NoOptions),
                                    Property("b", FLOAT_32, NoOptions)>>
              => StructSize(typeDefinition) = 40
        /\ (/\ Len(recordList) = 2
            /\ {Declared(recordList)[1], Declared(recordList)[2]}
                 = {Property("a", UINT_8, Offset(32)), Property("b", FLOAT_32, Offset(36))})
              => StructSize(typeDefinition) = 40

\* a manually placed record lies before the end of the record declared before it
C4_Witness ==
    /\ sizeOverride = Undefined
    /\ \E i \in 2..Len(recordList) :
          /\ ~IsAutoPlaced(recordList[i])
          /\ recordList[i].offset + RecordSize(recordList[i])
               < recordList[i - 1].offset + RecordSize(recordList[i - 1])


(***************************************************************************)
(* Read / write claims, checked under SpecIo                              *)
(***************************************************************************)

HasWritten == lastWrite # <<>>

\* the bytes the last set() call left outside positions from+1 .. to are the bytes before it
UnchangedOutside(from, to) ==
    \A p \in 1..Len(buffer) : (p > from /\ p <= to) \/ buffer[p] = bufferBefore[p]

\* v gives every field and every index of T, and T has no padding field
RECURSIVE FullySpecified(_, _)
FullySpecified(T, v) ==
    CASE T.kind = "primitive" -> TRUE
      [] T.kind = "string" -> TRUE
      [] T.kind = "array" ->
            /\ Len(v) = T.length
            /\ \A i \in 1..Len(v) : FullySpecified(T.element, v[i])
      [] T.kind = "struct" ->
            /\ \A i \in 1..Len(T.recordList) : ~T.recordList[i].padding
            /\ \A i \in 1..Len(T.recordList) :
                  /\ T.recordList[i].key \in DOMAIN v
                  /\ FullySpecified(T.recordList[i].type, v[T.recordList[i].key])

\* T stores v without loss: numbers are in range, a string fills its capacity
\* or is shorter and terminated by a filler it does not contain, and the
\* fields of a struct do not share bytes
RECURSIVE Storable(_, _)
Storable(T, v) ==
    CASE T.kind = "primitive" ->
            /\ v >= 0
            /\ PrimitiveSize(T) < 4 => v < Power256(PrimitiveSize(T))
      [] T.kind = "string" ->
            LET bytes == Encode(v)
            IN  /\ Decode(bytes) = v
                /\ IsNumber(T.filler) => \A i \in 1..Len(bytes) : bytes[i] # T.filler[1]
                /\ \/ Len(bytes) = T.size
                   \/ IsNumber(T.filler) /\ Len(bytes) < T.size
      [] T.kind = "array" ->
            /\ Len(v) = T.length
            /\ \A i \in 1..Len(v) : Storable(T.element, v[i])
      [] T.kind = "struct" ->
            LET list == T.recordList
            IN  /\ T.size = Undefined
                /\ \A i \in 1..Len(list) :
                      /\ ~list[i].padding
                      /\ list[i].key \in DOMAIN v
                      /\ Storable(list[i].type, v[list[i].key])
                /\ \A i, j \in 1..Len(list) :
                      i # j =>
                        \/ list[i].offset + RecordSize(list[i]) <= list[j].offset
                        \/ list[j].offset + RecordSize(list[j]) <= list[i].offset

ReadsBack ==
    Getter(boundType, buffer, lastWrite[1].offset, littleEndian) = lastWrite[1].value

C9_ShortWriteLeavesRest ==
    (/\ HasWritten
     /\ boundType.kind = "array"
     /\ boundType.fill = Undefined
     /\ Len(lastWrite[1].value) < boundType.length)
    => LET w == lastWrite[1]
           elementSize == TypeSize(boundType.element)
       IN  /\ \A index \in 0..(Len(w.value) - 1) :
                 Getter(boundType.element, buffer, w.offset + index * elementSize,
                        littleEndian) = w.value[index + 1]
           /\ UnchangedOutside(w.offset, w.offset + Len(w.value) * elementSize)

\* [10, 20] was written into the four-element array and indices 2 and 3 kept their bytes
C9_Witness ==
    /\ HasWritten
    /\ boundType = ARRAY_4
    /\ lastWrite[1].value = <<10, 20>>
    /\ SubSeq(buffer, lastWrite[1].offset + 1, lastWrite[1].offset + 8)
         # SubSeq(bufferBefore, lastWrite[1].offset + 1, lastWrite[1].offset + 8)
    /\ SubSeq(buffer, lastWrite[1].offset + 9, lastWrite[1].offset + 16)
         = SubSeq(bufferBefore, lastWrite[1].offset + 9, lastWrite[1].offset + 16)

\* C10: set() of an array with a fill (0 included) and a value shorter than
\* the array stores the value followed by the fill in every remaining index;
\* a value longer than the array stores its first length elements; in both
\* cases no byte outside the array changes.
C10_FillAndTruncate ==
    (HasWritten /\ boundType.kind = "array")
    => LET w == lastWrite[1]
           T == boundType
           read == Getter(T, buffer, w.offset, littleEndian)
       IN  /\ (T.fill # Undefined /\ Len(w.value) < T.length)
                 => read = [i \in 1..T.length |->
                              IF i <= Len(w.value) THEN w.value[i] ELSE T.fill[1]]
           /\ Len(w.value) > T.length => read = SubSeq(w.value, 1, T.length)
           /\ UnchangedOutside(w.offset, w.offset + TypeSize(T))

\* [10, 20] was written into array(UINT_32, 3) with fill 0 and reads [10, 20, 0]
C10_Witness ==
    /\ HasWritten
    /\ boundType = ARRAY_FILL
    /\ lastWrite[1].value = <<10, 20>>
    /\ Getter(boundType, buffer, lastWrite[1].offset, littleEndian) = <<10, 20, 0>>
    /\ bufferBefore[lastWrite[1].offset + 12] # 0

(***************************************************************************)
(* Reactive view claims, checked under SpecView                           *)
(***************************************************************************)

\* the offset of a member from the start of the root value, by the layout alone
RECURSIVE OffsetOfPath(_, _)
OffsetOfPath(T, path) ==
    IF path = <<>>
    THEN 0
    ELSE MemberOffset(T, Head(path)) + OffsetOfPath(MemberType(T, Head(path)), Tail(path))

\* the member of a plain value that a path names
RECURSIVE PlainAt(_, _, _)
PlainAt(T, value, path) ==
    IF path = <<>>
    THEN value
    ELSE PlainAt(MemberType(T, Head(path)),
                 IF T.kind = "struct" THEN value[Head(path)] ELSE value[IndexOf(Head(path)) + 1],
                 Tail(path))

\* get(view, type of the member, offset now + offset of the member, littleEndian)
PlainRead(path) ==
    Getter(TypeAt(boundType, path), buffer, offsetNow + OffsetOfPath(boundType, path),
           littleEndian)

\* the same member taken from get(view, root type, offset now, littleEndian)
PlainReadOfRoot(path) ==
    PlainAt(boundType, Getter(boundType, buffer, offsetNow, littleEndian), path)

\* what the member would have read at the offset the view was bound with
PlainReadWhereBound(path) ==
    Getter(TypeAt(boundType, path), buffer, bindOffset + OffsetOfPath(boundType, path),
           littleEndian)

\* what reading the path through the view, followed by toRaw, returns in this state
ViewRead(path) ==
    LET map == Resolve(getterMap, path, 1)
    IN  toRaw(map, Accessor(map, path))

\* C6: toRaw of the root view, and of any nested view obtained from it,
\* deep-equals a plain read of that type at its absolute offset in the same
\* buffer state; toRaw of a plain value returns the value unchanged.
C6_ToRawEqualsRead ==
    lastOp.op = "toRaw"
    => /\ lastOp.result = PlainRead(lastOp.path)
       /\ lastOp.result = PlainReadOfRoot(lastOp.path)
       /\ lastOp.arg.kind = "plain" => lastOp.result = lastOp.arg.value

\* toRaw of a nested array view, memoized before the offset moved, read the new region
C6_Witness ==
    /\ lastOp.op = "toRaw"
    /\ lastOp.path = <<"inner", "list">>
    /\ lastOp.cached
    /\ lastOp.arg.kind = "proxy"
    /\ offsetNow # bindOffset
    /\ lastOp.result = PlainRead(lastOp.path)
    /\ lastOp.result # PlainReadWhereBound(lastOp.path)

\* C7: after a property or index assignment through the view, at any depth
\* and whether or not the property was read before, the bytes are those a
\* plain write at the member's absolute offset leaves, and a value the type
\* stores is returned by a plain read of the member, by a plain read of the
\* root, and by the next read of the property through the view.
C7_WriteVisible ==
    lastOp.op = "set"
    => LET T == TypeAt(boundType, lastOp.path)
       IN  /\ buffer = Setter(T, bufferBefore,
                              offsetNow + OffsetOfPath(boundType, lastOp.path),
                              littleEndian, lastOp.arg)
           /\ Storable(T, lastOp.arg)
                => /\ PlainRead(lastOp.path) = lastOp.arg
                   /\ PlainReadOfRoot(lastOp.path) = lastOp.arg
                   /\ ViewRead(lastOp.path) = lastOp.arg

\* an index of the nested array, read through the view before, was assigned
C7_Witness ==
    /\ lastOp.op = "set"
    /\ lastOp.path = <<"inner", "list", "1">>
    /\ lastOp.cached
    /\ buffer # bufferBefore
    /\ ViewRead(lastOp.path) = 258
    /\ PlainRead(lastOp.path) = 258

\* C8: every leaf read through the view returns the bytes at the resolver's
\* present result plus the member's offset, memoized accessor or not; every
\* assignment through the view stores there and changes no byte elsewhere.
C8_AddressUsesCurrentBase ==
    /\ (lastOp.op = "get" /\ lastOp.result.kind = "plain")
          => lastOp.result.value = PlainRead(lastOp.path)
    /\ lastOp.op = "set"
          => LET T == TypeAt(boundType, lastOp.path)
                 offset == offsetNow + OffsetOfPath(boundType, lastOp.path)
             IN  /\ UnchangedOutside(offset, offset + TypeSize(T))
                 /\ Storable(T, lastOp.arg) => PlainRead(lastOp.path) = lastOp.arg

\* a nested leaf whose accessor was memoized before the offset moved was read
\* again and returned the bytes of the new region, which differ from the old
C8_Witness ==
    /\ lastOp.op = "get"
    /\ lastOp.cached
    /\ Len(lastOp.path) >= 2
    /\ lastOp.result.kind = "plain"
    /\ offsetNow # bindOffset
    /\ lastOp.result.value = PlainRead(lastOp.path)
    /\ lastOp.result.value # PlainReadWhereBound(lastOp.path)

(***************************************************************************)
(* String claims, checked under SpecIo                                    *)
(***************************************************************************)

\* the bytes of the string's region after the last set()
Region == SubSeq(buffer, lastWrite[1].offset + 1, lastWrite[1].offset + boundType.size)

\* the bytes of the same region before it
RegionBefore ==
    SubSeq(bufferBefore, lastWrite[1].offset + 1, lastWrite[1].offset + boundType.size)

\* the bytes of a region before the first occurrence of a byte (all, if none)
RECURSIVE PrefixBefore(_, _)
PrefixBefore(bytes, byte) ==
    IF bytes = <<>> \/ Head(bytes) = byte
    THEN <<>>
    ELSE <<Head(bytes)>> \o PrefixBefore(Tail(bytes), byte)

\* the first n items of a sequence
Take(seq, n) == SubSeq(seq, 1, Min(n, Len(seq)))

\* C11: set() of a string with capacity c and filler f stores the first
\* min(encoded length, c) encoded bytes followed by f up to the end of the
\* region and changes no byte outside; get() decodes the bytes of the region
\* before the first f, all c bytes if there is none.
C11_FillerString ==
    (HasWritten /\ boundType.kind = "string" /\ IsNumber(boundType.filler))
    => LET bytes == Encode(lastWrite[1].value)
           c == boundType.size
           f == boundType.filler[1]
       IN  /\ Region = Take(bytes, c) \o [i \in 1..(c - Min(Len(bytes), c)) |-> f]
           /\ UnchangedOutside(lastWrite[1].offset, lastWrite[1].offset + c)
           /\ Getter(boundType, buffer, lastWrite[1].offset, littleEndian)
                = Decode(PrefixBefore(Region, f))

\* "AB" written into defineString(5, 0) gives 0x41 0x42 0 0 0 and reads "AB"
C11_Witness ==
    /\ HasWritten
    /\ boundType = STRING_FILLER
    /\ lastWrite[1].value = <<65, 66>>
    /\ Region = <<65, 66, 0, 0, 0>>
    /\ RegionBefore # Region
    /\ Getter(boundType, buffer, lastWrite[1].offset, littleEndian) = <<65, 66>>

\* C12: set() of a string with capacity c and no filler changes only the
\* first min(encoded length, c) bytes of the region; get() decodes all c
\* bytes of the region, zero bytes included.
C12_PlainString ==
    (HasWritten /\ boundType.kind = "string" /\ boundType.filler = Undefined)
    => LET bytes == Encode(lastWrite[1].value)
           c == boundType.size
           n == Min(Len(bytes), c)
       IN  /\ Take(Region, n) = Take(bytes, c)
           /\ UnchangedOutside(lastWrite[1].offset, lastWrite[1].offset + n)
           /\ Getter(boundType, buffer, lastWrite[1].offset, littleEndian) = Decode(Region)

\* "AB" written into defineString(3) kept the third byte, and the read decodes it
C12_Witness ==
    /\ HasWritten
    /\ boundType = STRING_PLAIN
    /\ lastWrite[1].value = <<65, 66>>
    /\ Region[3] = RegionBefore[3]
    /\ Region[1] # RegionBefore[1]
    /\ Len(Getter(boundType, buffer, lastWrite[1].offset, littleEndian)) = 3

(***************************************************************************)
(* Builder claims, checked under Spec                                     *)
(***************************************************************************)

\* some record of the struct, property or padding, has the key
KeyExists(key) == \E i \in 1..Len(recordList) : recordList[i].key = key

LayoutUnchanged == UNCHANGED <<recordList, sizeCalc, alignCalc, sizeOverride>>

\* C13: addProperty / addPadding with a key some record (property or padding)
\* already has throws, updateProperty / updatePadding / remove with a key no
\* record has throws (no step that does not throw is such a call), and a call
\* that throws leaves the record list, the offsets, the size and the
\* alignment as they were.
C13_KeyFailuresAtomic ==
    [][/\ threw' => LayoutUnchanged
       /\ ~threw' =>
            \A key \in Keys :
                IF KeyExists(key)
                THEN /\ \A input \in PropertyInputs : ~AddProperty(key, input[1], input[2])
                     /\ \A input \in PaddingInputs : ~AddPadding(key, input[1], input[2])
                ELSE /\ \A input \in PropertyInputs : ~UpdateProperty(key, input[1], input[2])
                     /\ \A input \in PaddingInputs : ~UpdatePadding(key, input[1], input[2])
                     /\ ~Remove(key)]_vars

\* a call has just thrown on a struct that holds a property and a padding record
C13_Witness ==
    /\ threw
    /\ \E i \in 1..Len(recordList) : recordList[i].padding
    /\ \E i \in 1..Len(recordList) : ~recordList[i].padding

\* the keys of all records, in their order
AllKeys(list) == [i \in 1..Len(list) |-> list[i].key]

\* the keys of all records, as a set
KeySet(list) == {list[i].key : i \in 1..Len(list)}

\* the offsets, alignment and size are those of a layout of the declarations alone
LayoutFromScratch(list, aCalc, sCalc) ==
    LET layout == UpdateLayout(Declared(list))
    IN  /\ list = layout.recordList
        /\ aCalc = layout.alignCalc
        /\ sCalc = layout.sizeCalc

\* the struct of the test: bar of size 1, foo of size 10 align 4, 1 of size 10 align 4
IsTestList(list) ==
    /\ AllKeys(list) = <<"bar", "foo", "1">>
    /\ \A i \in 1..3 : ~list[i].padding
    /\ list[1].type = CHAR
    /\ list[2].type = TestA
    /\ list[3].type = TestA

IsTestStruct == IsTestList(recordList)

\* C14: after every successful add, update or remove, the offsets, the
\* alignment and the size are those a layout of the current ordered record
\* list gives from scratch; an update (a step that keeps the set of keys)
\* leaves the order of the keys as it was;
\* bar (size 1), foo (size 10, align 4), 1 (size 10, align 4) has size 28.
C14_LayoutFromScratch ==
    [][/\ ~threw' => LayoutFromScratch(recordList', alignCalc', sizeCalc')
       /\ KeySet(recordList') = KeySet(recordList)
            => AllKeys(recordList') = AllKeys(recordList)
       /\ IsTestList(recordList')
            => StructSize(StructType(recordList', sizeCalc', alignCalc', sizeOverride',
                                     Undefined)) = 28]_vars

\* the struct of the test, with foo at 4 and 1 at 16
C14_Witness ==
    /\ IsTestStruct
    /\ ~threw
    /\ recordList[2].offset = 4
    /\ recordList[3].offset = 16
    /\ StructSize(typeDefinition) = 28


(***************************************************************************)
(* Claims about the order of the records                                  *)
(***************************************************************************)

\* the declaration of the record at a position of _recordList
DeclarationOf(i) ==
    LET key == recordList[i].key
    IN  declared[CHOOSE d \in 1..Len(declared) : declared[d].key = key]

\* the position of a key among the declarations
DeclaredAt(key) == CHOOSE d \in 1..Len(declared) : declared[d].key = key

\* every declared field has one record, and every record was declared
RecordsAreDeclared ==
    /\ Len(recordList) = Len(declared)
    /\ KeySet(recordList) = {declared[d].key : d \in 1..Len(declared)}

\* JavaScript enumerates integer-like keys first, ascending, and then the
\* other keys in the order they were written
EnumeratesBefore(a, b) ==
    IF IsIntegerKey(a.key) /\ IsIntegerKey(b.key) THEN IndexOf(a.key) < IndexOf(b.key)
    ELSE IF IsIntegerKey(a.key) THEN TRUE
    ELSE IF IsIntegerKey(b.key) THEN FALSE
    ELSE DeclaredAt(a.key) < DeclaredAt(b.key)

\* the order index decides, and where it does not the given tie-break does
OrderedBefore(a, b, TieBreak(_, _)) ==
    IF IsNumber(a.order) /\ IsNumber(b.order)
    THEN \/ a.order[1] < b.order[1]
         \/ a.order[1] = b.order[1] /\ TieBreak(a, b)
    ELSE IF IsNumber(a.order) THEN TRUE
    ELSE IF IsNumber(b.order) THEN FALSE
    ELSE TieBreak(a, b)

DeclaredBefore(a, b) == DeclaredAt(a.key) < DeclaredAt(b.key)

\* C15 as stated: the records with an order index come first, ascending, ties
\* in declaration order, and the records without one follow in declaration
\* order, whichever call supplied the order index
C15_OrderHonoured ==
    /\ RecordsAreDeclared
    /\ \A i, j \in 1..Len(recordList) :
           i < j => OrderedBefore(DeclarationOf(i), DeclarationOf(j), DeclaredBefore)

\* C15, amended: the order index decides only among the fields of one options
\* object (ordered fields first, ascending, ties and unordered fields in the
\* enumeration order of the object's keys); a chained add ignores the order
\* index of its options argument and puts its record after all existing ones
C15_OrderInOptionsOnly ==
    /\ RecordsAreDeclared
    /\ \A i, j \in 1..Len(recordList) :
           i < j =>
               LET a == DeclarationOf(i)
                   b == DeclarationOf(j)
               IN  IF b.by = "add"
                   THEN a.by = "options" \/ DeclaredBefore(a, b)
                   ELSE a.by = "options" /\ OrderedBefore(a, b, EnumeratesBefore)

\* an options object with ordered and unordered fields was set, and a chained
\* add with an order index followed
C15_Witness ==
    /\ ~threw
    /\ \E i, j, k \in 1..Len(declared) :
           /\ declared[i].by = "options" /\ IsNumber(declared[i].order)
           /\ declared[j].by = "options" /\ ~IsNumber(declared[j].order)
           /\ declared[k].by = "add" /\ IsNumber(declared[k].order)


(***************************************************************************)
(* Claims about the methods of a reactive array                           *)
(***************************************************************************)

\* the last call was a method whose result has another length than the array
LengthChangingCall == lastOp.op \in LengthChanging /\ lastOp.result # TypeAt(boundType, lastOp.path).length

\* C16 as stated: a whole-array call through a reactive array whose result
\* has another length than the array throws, and the buffer is as it was
\* before the call
C16_LengthChangeFails ==
    LengthChangingCall => threw /\ buffer = bufferBefore

\* a shift was called through the proxy, returned, and moved the elements
C16_Witness ==
    /\ LengthChangingCall
    /\ ~threw
    /\ buffer # bufferBefore


(***************************************************************************)
(* Claims about the byte order of struct reads and writes                 *)
(***************************************************************************)

\* the two bytes at an offset, read as an unsigned number in a byte order
Uint16At(buf, offset, little) ==
    IF little
    THEN buf[offset + 1] + 256 * buf[offset + 2]
    ELSE 256 * buf[offset + 1] + buf[offset + 2]

\* the UINT_16 leaves of the struct bound: the descriptors on the way from the
\* struct to the leaf, the leaf's offset, and the value at the leaf
EndianLeaves(value) ==
    LET a == PropertyOf(boundType, "a")
        s == PropertyOf(boundType, "s")
        v == PropertyOf(s.type, "v")
    IN  {[types |-> <<a.type>>, offset |-> a.offset, value |-> value.a],
         [types |-> <<s.type, v.type>>, offset |-> s.offset + v.offset, value |-> value.s.v]}

\* the byte order a leaf is accessed with if a descriptor's own byte order
\* overrides the one handed down to it
RECURSIVE ForcedEndian(_, _)
ForcedEndian(endian, types) ==
    IF types = <<>>
    THEN endian
    ELSE ForcedEndian(IF TypeLittleEndian(Head(types)) # Undefined
                      THEN TypeLittleEndian(Head(types))
                      ELSE endian,
                      Tail(types))

\* the byte order a leaf is accessed with if a descriptor's own byte order is
\* used only where none is handed down to it
RECURSIVE DefaultEndian(_, _)
DefaultEndian(endian, types) ==
    IF types = <<>>
    THEN endian
    ELSE DefaultEndian(IF endian # Undefined THEN endian ELSE TypeLittleEndian(Head(types)),
                       Tail(types))

\* the last call read or wrote every leaf of the struct in the byte order that
\* the rule gives for the caller's argument and the leaf's descriptors
AccessedWith(Rule(_, _)) ==
    /\ lastOp.op = "get" =>
           \A leaf \in EndianLeaves(lastOp.result) :
               leaf.value = Uint16At(buffer, leaf.offset,
                                     Rule(littleEndian, leaf.types) = Some(TRUE))
    /\ lastOp.op = "set" =>
           \A leaf \in EndianLeaves(lastOp.arg) :
               leaf.value = Uint16At(buffer, leaf.offset,
                                     Rule(littleEndian, leaf.types) = Some(TRUE))

PropertyPositions == {i \in 1..Len(recordList) : ~recordList[i].padding}

\* the keys of the padding records
PaddingKeys == {recordList[i].key : i \in 1..Len(recordList) \ PropertyPositions}

\* keys is the list of the non-padding keys in the order of the layout: the
\* n-th key is the key of the n-th record that is not padding
IsPropertyKeysInOrder(keys) ==
    /\ Len(keys) = Cardinality(PropertyPositions)
    /\ \A i \in PropertyPositions :
           keys[Cardinality({j \in PropertyPositions : j <= i})] = recordList[i].key

\* bytes for a read of the struct wherever its properties lie
ZeroBuffer == [p \in 1..256 |-> 0]

RefPlainRead == Getter(boundType, buffer, offsetNow, littleEndian)

\* the paths of the leaves of T
LeafPaths(T) == {path \in Paths(T) : ~IsComposite(TypeAt(T, path))}

\* what r.value returned has the content of a plain value: it is that value,
\* or a view every leaf of which reads as the leaf of that value
HasContent(x, plain) ==
    IF x.kind = "plain"
    THEN x.value = plain
    ELSE \A path \in LeafPaths(boundType) :
             LET leaf == Accessor(Resolve(getterMap, path, 1), path)
             IN  leaf.value = PlainAt(boundType, plain, path)

\* C19: r.value reads as the plain read at the resolver's present offset, on
\* the first read and once the accessor is memoized, whatever was written or
\* relocated before; r.value = v stores v there; toRaw(r) is {value: that read}
C19_RefReadsLive ==
    /\ (lastOp.op = "get" /\ lastOp.path = <<>>) => HasContent(lastOp.result, RefPlainRead)
    /\ lastOp.op = "toRaw" => lastOp.result = [value |-> RefPlainRead]
    /\ lastOp.op = "set" =>
           /\ HasContent(Accessor(CacheGetter(getterMap), <<>>), RefPlainRead)
           /\ Storable(boundType, lastOp.arg) => RefPlainRead = lastOp.arg
           /\ UnchangedOutside(offsetNow, offsetNow + TypeSize(boundType))

\* after r.value = v and a first read, the resolver moved, and the memoized
\* accessor returned what the new region holds, not v
C19_Witness ==
    /\ lastOp.op = "get"
    /\ lastOp.path = <<>>
    /\ lastOp.cached
    /\ lastWrite # <<>>
    /\ offsetNow # bindOffset
    /\ RefPlainRead # lastWrite[1].value


(***************************************************************************)
(* Claims about freeze()                                                  *)
(***************************************************************************)

SameLayout(T, list, size, align) ==
    /\ T.recordList = list
    /\ TypeSize(T) = size
    /\ TypeAlign(T) = align

\* C21 as stated: the descriptor freeze() returns, and the builder clone()
\* makes of it, have the record list (keys of every kind, types, alignments,
\* explicit offsets, padding records), the offsets, the size and the alignment
\* of the builder at the time of the call, and later calls on the builder do
\* not change the descriptor freeze() returned
C21_FreezeKeepsLayout ==
    [][/\ lastOp'.op = "freeze" =>
            LET T == frozen'[1]
                size == TypeSize(typeDefinition)
                align == TypeAlign(typeDefinition)
            IN  /\ SameLayout(T, recordList, size, align)
                /\ SameLayout(Clone(T.recordList, T.size, T.align), recordList, size, align)
       /\ lastOp'.op = "builder" => frozen' = frozen]_vars

\* freeze() was called on a builder that has a record under a symbol key and
\* one under a string key, and the descriptor returned lacks the first
C21_Witness ==
    /\ lastOp.op = "freeze"
    /\ \E i, j \in 1..Len(recordList) :
           IsSymbolKey(recordList[i].key) /\ ~IsSymbolKey(recordList[j].key)
    /\ Len(frozen[1].recordList) = Len(recordList) - 1
    /\ \A i \in 1..Len(frozen[1].recordList) : ~IsSymbolKey(frozen[1].recordList[i].key)


(***************************************************************************)
(* Claims about the predefined integer types                               *)
(***************************************************************************)

\* the bytes of element i (from 0) of an array written at the last offset
ElementBytes(i) ==
    LET size == PrimitiveSize(boundType)
    IN  {lastWrite[1].offset + size * i + b : b \in 1..size}

\* C22: for every predefined integer type, every value of its range, every
\* offset and either byte order, get after set returns the value set, and
\* getArray after setArray returns the array set, element i being read back
\* from the bytes off + i * size .. off + (i + 1) * size - 1 alone, which no
\* other element shares; no byte outside the elements is written
C22_IntegerRoundTrip ==
    /\ lastOp.op = "set" =>
          /\ InRange(boundType, lastOp.arg)
          /\ lastOp.result = lastOp.arg
          /\ \A p \in DOMAIN buffer : p \notin ElementBytes(0) => buffer[p] = bufferBefore[p]
    /\ lastOp.op = "setArray" =>
          /\ lastOp.result = lastOp.arg
          /\ \A i \in 1..Len(lastOp.arg) :
                /\ InRange(boundType, lastOp.arg[i])
                /\ IntegerGetter(boundType, buffer,
                                 lastWrite[1].offset + PrimitiveSize(boundType) * (i - 1),
                                 littleEndian) = lastOp.arg[i]
                /\ \A j \in 1..Len(lastOp.arg) :
                      i # j => ElementBytes(i - 1) \cap ElementBytes(j - 1) = {}
          /\ \A p \in DOMAIN buffer :
                (\A i \in 1..Len(lastOp.arg) : p \notin ElementBytes(i - 1))
                    => buffer[p] = bufferBefore[p]

\* two elements of a signed 64 bit type, the smallest number first, were
\* written little-endian at an odd offset over an earlier write
C22_Witness ==
    /\ lastOp.op = "setArray"
    /\ boundType = INT_64
    /\ littleEndian
    /\ lastWrite[1].offset = 1
    /\ Len(lastOp.arg) = 2
    /\ lastOp.arg[1] = Number(TRUE, TopDigit(8, 128))
    /\ opCount = 2
    /\ buffer[2] = 0 /\ buffer[9] = 128 /\ buffer[10] = 255


(***************************************************************************)
(* Claims about views that alias one region                                *)
(***************************************************************************)

\* the last operation read a value that is not a view
AliasLeafRead == lastOp.op = "get" /\ lastOp.result.kind = "plain"

\* the last write wrote the very field the last operation read
ReadsLastWritten ==
    /\ AliasLeafRead
    /\ lastWrite # <<>>
    /\ lastWrite[1].offset = lastOp.arg.offset
    /\ lastWrite[1].type = TypeAt(boundType, lastOp.path)

\* C23: a read of a field through a view, memoized or not, returns what the
\* bytes of the field hold at the time of the read, whichever view or plain
\* call wrote them; read after writes to the same field through any views,
\* it returns the value of the last write
C23_LastWriteWins ==
    /\ AliasLeafRead =>
          lastOp.result.value = Getter(TypeAt(boundType, lastOp.path), buffer,
                                       lastOp.arg.offset, littleEndian)
    /\ ReadsLastWritten => lastOp.result.value = lastWrite[1].value

\* view 2, bound one element after view 1, reads through an accessor memoized
\* before it the field that view 1 wrote last under another path
C23_Witness ==
    /\ ReadsLastWritten
    /\ lastOp.cached
    /\ lastOp.arg.view = 2
    /\ lastWrite[1].view = 1
    /\ alias.offset > 0
    /\ lastOp.result.value = lastWrite[1].value
    /\ lastOp.result.value # alias.getterMap[lastOp.path].first.value


(***************************************************************************)
(* Claims about fields of dynamic size                                     *)
(***************************************************************************)

\* the last operation was a read or a write of the struct
WasWalk == lastOp.op \in {"get", "set"}

\* the reader or writer of some dynamic field reported no size
SomeUnreported ==
    \E i \in 1..Len(recordList) :
        ~IsStaticSize(fieldType, recordList[i]) /\ lastOp.arg[i] = Undefined

\* a walk in which a dynamic field's size is not reported throws
AbortsWithoutReport == (WasWalk /\ SomeUnreported) => threw

\* the end of field i in the last walk: where it was placed, plus its fixed
\* size or the size reported in that walk
WalkEnd(i) ==
    lastOp.result[i]
    + (IF IsStaticSize(fieldType, recordList[i])
       THEN DefinedTypeOf(fieldType, recordList[i]).size[1]
       ELSE lastOp.arg[i][1])

\* field i has no explicit offset and comes after a dynamic field
FollowsDynamic(i) ==
    /\ recordList[i].offset = Undefined
    /\ \E j \in 1..(i - 1) : ~IsStaticSize(fieldType, recordList[j])

\* the aligned position after the field before field i
AlignedAfter(i) ==
    LET T == DefinedTypeOf(fieldType, recordList[i])
        align == Max(Coalesce(recordList[i].align, Coalesce(T.align, Coalesce(T.size, 1))), 1)
    IN  WalkEnd(i - 1) + AlignPadding(WalkEnd(i - 1), align)

\* in a walk that does not throw, every auto-placed field after a dynamic
\* field is placed at the aligned position after the end of the field before it
FollowersAfterReported ==
    (WasWalk /\ ~threw) =>
        \A i \in 2..Len(recordList) : FollowsDynamic(i) => lastOp.result[i] = AlignedAfter(i)

\* C24 as stated: a read or write of a struct in which the reader or writer
\* of a dynamic-size field reports no size aborts with an error, and when the
\* sizes are reported every auto-placed field after a dynamic field is at the
\* aligned position after the size reported in that same walk, never at an
\* offset cached by an earlier pass
C24_DynamicSizeContract == AbortsWithoutReport /\ FollowersAfterReported

\* a walk that did not throw placed an auto-placed field after a dynamic
\* field at the offset cached for it, which is not the aligned position after
\* the size reported
C24_Witness ==
    /\ WasWalk
    /\ ~threw
    /\ \E i \in 2..Len(recordList) :
          /\ FollowsDynamic(i)
          /\ ~IsStaticSize(fieldType, recordList[i - 1])
          /\ recordList[i].offsetCache = Some(lastOp.result[i])
          /\ lastOp.result[i] # AlignedAfter(i)


(***************************************************************************)
(* Claims about explicit offsets                                           *)
(***************************************************************************)

\* the first byte after record i
RecordEnd(i) == recordList[i].offset + RecordSize(recordList[i])

\* where the cursor is when record i is placed
CursorBefore(i) == IF i = 1 THEN 0 ELSE RecordEnd(i - 1)

\* n rounded up to a multiple of align
RoundUp(n, align) == n + ((align - (n % align)) % align)

\* the furthest first-byte-after among the records, 0 for no record
FurthestEnd ==
    IF recordList = <<>>
    THEN 0
    ELSE CHOOSE end \in {RecordEnd(i) : i \in 1..Len(recordList)} :
            \A i \in 1..Len(recordList) : RecordEnd(i) <= end

\* a record with an explicit offset lies at that offset, whatever lies there
\* already, and the record after it is placed from its end
ExplicitOffsetsHonoured ==
    \A i \in 1..Len(recordList) :
        IF IsAutoPlaced(recordList[i])
        THEN recordList[i].offset = RoundUp(CursorBefore(i), RecordAlign(recordList[i]))
        ELSE recordList[i].offset = recordList[i].offsetStatic[1]

\* C25 as stated: explicit offsets are taken as they are, the cursor goes on
\* from there, and the calculated size is the cursor after the last record
\* rounded up to a multiple of the largest alignment
C25_SizeFromCursor ==
    /\ ExplicitOffsetsHonoured
    /\ recordList # <<>> =>
          sizeCalc = RoundUp(RecordEnd(Len(recordList)), LargestAlign(recordList))

\* C25, amended: explicit offsets are taken as they are, the cursor goes on
\* from there, and the calculated size is the furthest end any record
\* reaches, rounded up to a multiple of the largest alignment, which is the
\* calculated alignment
C25_SizeFromFurthestEnd ==
    /\ ExplicitOffsetsHonoured
    /\ alignCalc = LargestAlign(recordList)
    /\ sizeCalc = RoundUp(FurthestEnd, alignCalc)

\* the last record has an explicit offset inside the bytes of an earlier one,
\* a record placed after an explicit one follows it, and the size is beyond
\* the rounded end of the last record
C25_Witness ==
    /\ Len(recordList) >= 2
    /\ ~IsAutoPlaced(recordList[Len(recordList)])
    /\ \E i \in 1..(Len(recordList) - 1) :
          /\ recordList[i].offset <= recordList[Len(recordList)].offset
          /\ recordList[Len(recordList)].offset < RecordEnd(i)
    /\ sizeCalc > RoundUp(RecordEnd(Len(recordList)), LargestAlign(recordList))


(***************************************************************************)
(* Claims about array methods called on a view that has a snapshot         *)
(***************************************************************************)

\* the array at the path of the last operation, read from bytes
ArrayRead(bytes) ==
    Getter(TypeAt(boundType, lastOp.path), bytes,
           BaseOffset + PathOffset(boundType, lastOp.path), littleEndian)

\* the plain method applied to a plain array
PlainMethod(method, array, param) ==
    CASE method = "reverse" -> Reverse(array)
      [] method = "fill" -> [i \in 1..Len(array) |-> param]

\* C26 as stated: after a whole-array method called on an array view, at any
\* point of any sequence of index assignments, plain writes and earlier
\* method calls, the array read from the buffer is the plain method applied
\* to the array as the buffer held it just before the call
C26_SnapshotAtCall ==
    lastOp.op \in WholeArrayMethods =>
        ArrayRead(buffer) = PlainMethod(lastOp.op, ArrayRead(bufferBefore), lastOp.arg)

\* reverse() was called on a view of bytes that kept a snapshot, and the
\* buffer does not hold the reverse of what it held before the call
C26_Witness ==
    /\ lastOp.op = "reverse"
    /\ lastOp.cached
    /\ boundType = ARRAY_BYTES
    /\ ArrayRead(buffer) # Reverse(ArrayRead(bufferBefore))
    /\ ArrayRead(buffer) = Reverse([i \in 1..3 |-> cachedArray[lastOp.path][i].value])


\* C29 as stated: a method that does not change the array it is called on
\* (indexOf, includes, slice) leaves every byte of the buffer as it was, also
\* after index assignments or plain writes that follow an earlier method
\* call, and an index read never writes
C29_NonMutatingKeepsBuffer ==
    [][(lastOp'.op \in NonMutatingMethods \/ lastOp'.op = "get") => buffer' = buffer]_vars

\* includes() was called on a view that kept a snapshot, after a write to
\* the bytes of the array, and the call changed bytes of the buffer
C29_Witness ==
    /\ lastOp.op = "includes"
    /\ lastOp.cached
    /\ buffer # bufferBefore
    /\ \A p \in DOMAIN buffer :
          buffer[p] # bufferBefore[p] => (buffer[p] > 100 /\ bufferBefore[p] < 100)


(***************************************************************************)
(* Claims about memoized accessors                                         *)
(***************************************************************************)

\* what a view made now, with no accessor memoized, returns for a path
FreshRead(path) == Accessor(Resolve(<<>>, path, 1), path)

\* C27: a read through a view, memoized or not, changes neither the buffer
\* nor the base offset and returns what a fresh view returns for the same
\* path, which for a value is the plain read of the field at baseOffset() +
\* localOffset; a repeated read of a composite property returns the child
\* view the first read made, whose context is kept as it was
C27_MemoizationIsPure ==
    [][lastOp'.op = "get" =>
          LET path == lastOp'.path
              composite == IsComposite(TypeAt(boundType, path))
          IN  /\ buffer' = buffer /\ offsetNow' = offsetNow /\ boundType' = boundType
              /\ lastOp'.result = FreshRead(path)
              /\ ~composite => lastOp'.result = Plain(PlainRead(path))
              /\ composite => lastOp'.result = Proxy(path)
              /\ \A known \in DOMAIN getterMap :
                    known \in DOMAIN getterMap' /\ getterMap'[known] = getterMap[known]]_vars

\* a value below a memoized composite was read through its memoized accessor
\* after a change of the base offset
C27_Witness ==
    /\ lastOp.op = "get"
    /\ lastOp.cached
    /\ Len(lastOp.path) >= 2
    /\ lastOp.result.kind = "plain"
    /\ offsetNow # bindOffset
    /\ lastOp.result = Plain(PlainRead(lastOp.path))


(***************************************************************************)
(* The bytes a struct write changes                                       *)
(***************************************************************************)

\* the positions of the buffer that the last write changed
Changed == {p \in DOMAIN buffer : buffer[p] # bufferBefore[p]}

\* the elements of a sequence
SeqRange(seq) == {seq[i] : i \in DOMAIN seq}

\* the ranges [offset, offset + size) of the non-padding fields of a struct at base
FieldRanges(T, base) ==
    UNION {(base + r.offset + 1)..(base + r.offset + TypeSize(r.type)) :
              r \in SeqRange(PropertyList(T.recordList))}

\* the region [base, base + size) of a descriptor
RegionOf(T, base) == (base + 1)..(base + TypeSize(T))

\* the positions the setter of T addresses at base: a struct addresses its
\* non-padding fields, an array its elements, a primitive or string its bytes
RECURSIVE Covered(_, _)
Covered(T, base) ==
    CASE T.kind = "struct" ->
            UNION {Covered(r.type, base + r.offset) : r \in SeqRange(PropertyList(T.recordList))}
      [] T.kind = "array" ->
            UNION {Covered(T.element, base + index * TypeSize(T.element)) :
                      index \in 0..(T.length - 1)}
      [] OTHER -> (base + 1)..(base + TypeSize(T))

\* no descriptor in T declares a size smaller than what its setter addresses
RECURSIVE Contained(_)
Contained(T) ==
    /\ Covered(T, 0) \subseteq RegionOf(T, 0)
    /\ CASE T.kind = "struct" ->
              \A r \in SeqRange(PropertyList(T.recordList)) : Contained(r.type)
         [] T.kind = "array" -> Contained(T.element)
         [] OTHER -> TRUE

\* C28 as stated: a struct write changes only bytes inside the ranges
\* [offset, offset + size) of the non-padding fields of the struct; padding
\* records, gaps, trailing padding and the bytes outside the region of the
\* struct keep their contents
C28_WriteStaysInFields ==
    lastWrite # <<>> =>
        /\ Changed \subseteq FieldRanges(boundType, lastWrite[1].offset)
        /\ Changed \subseteq RegionOf(boundType, lastWrite[1].offset)

\* C28: a struct write changes only bytes that the setters of its non-padding
\* fields address, down to the fields of nested structs and the elements of
\* arrays; when no descriptor in the struct declares a size below what its
\* setter addresses, these bytes lie inside the ranges [offset, offset + size)
\* of the non-padding fields and inside the region of the struct
C28_WriteStaysInCovered ==
    lastWrite # <<>> =>
        /\ Changed \subseteq Covered(boundType, lastWrite[1].offset)
        /\ Contained(boundType) =>
              /\ Changed \subseteq FieldRanges(boundType, lastWrite[1].offset)
              /\ Changed \subseteq RegionOf(boundType, lastWrite[1].offset)

\* a struct with a gap, a padding record and end padding, nested in another
\* struct, was written at offset 1: every field changed, and the gap, the
\* padding and the bytes around the struct did not
C28_Witness ==
    /\ boundType = NESTED
    /\ lastWrite # <<>>
    /\ lastWrite[1].offset = 1
    /\ {2, 6, 10, 16, 18} \subseteq Changed
    /\ Changed \cap ({1, 3, 4, 5, 7, 8, 9, 14, 15, 17} \cup 19..Len(buffer)) = {}


(***************************************************************************)
(* The ranges of auto-placed fields                                       *)
(***************************************************************************)

\* the range [offset, offset + type.size) of a field, with the current size of its type
FieldRange(record) == (record.offset + 1)..(record.offset + TypeSize(record.type))

\* the ranges of the fields of T are pairwise disjoint and lie inside [0, T.size)
FieldsDisjointInside(T) ==
    LET list == PropertyList(T.recordList)
    IN  /\ \A i, j \in DOMAIN list :
              i # j => FieldRange(list[i]) \cap FieldRange(list[j]) = {}
        /\ \A i \in DOMAIN list : FieldRange(list[i]) \subseteq 1..TypeSize(T)

\* C30 as stated: the ranges of the fields of a struct whose fields are all
\* auto-placed, taken with the current size of each field type, are pairwise
\* disjoint and lie inside the struct, also after calls on a descriptor that
\* is the type of a field, and for a struct frozen before such a call
C30_FieldsDisjointInside ==
    /\ FieldsDisjointInside(typeDefinition)
    /\ frozen # <<>> => FieldsDisjointInside(frozen[1])

\* setLength made the shared array longer after it became the type of a
\* field and after the struct was frozen: the field of the frozen struct
\* ends behind the size of the frozen struct
C30_Witness ==
    /\ lastOp.op = "setLength"
    /\ frozen # <<>>
    /\ \E i \in DOMAIN frozen[1].recordList :
          /\ IsShared(frozen[1].recordList[i])
          /\ frozen[1].recordList[i].offset + TypeSize(frozen[1].recordList[i].type)
                > TypeSize(frozen[1])

=============================================================================
